---- MODULE Spec2Model ----
(***************************************************************************)
(* Model of the genetic deception engine (GeneticDeceptionEvolver) and of  *)
(* the demo orchestrator that drives it from two threads.                  *)
(*                                                                         *)
(* Numbers.  Python floats are modelled in fixed point.  A gene value v is *)
(* stored as the integer v * Unit.  random.random() is modelled with a     *)
(* resolution of one tenth, so every blend of two genes in a generation    *)
(* needs one more decimal digit; Unit carries two digits plus one per      *)
(* generation the model allows, which keeps all gene arithmetic exact.     *)
(* Fitness values are stored in thousandths (1000.0 is 1000000).           *)
(*                                                                         *)
(* Objects.  Chromosomes are Python dicts, held by reference.  heap is the *)
(* object store, a sequence of chromosome records; a reference is an index *)
(* into it.  The population, the history records and the locals of a       *)
(* running call hold references, so two holders of the same reference see  *)
(* each other's writes, as in the source.                                  *)
(***************************************************************************)
EXTENDS Integers, Sequences, FiniteSets, TLC

VARIABLES
    config,                  \* GA_CONFIG as read by __init__
    rng,                     \* state of the `random` module's generator
    heap,                    \* object store: reference -> chromosome dict
    population,              \* self.population: sequence of references
    generation,              \* self.generation
    fitness_history,         \* self.fitness_history
    best_chromosome_history, \* self.best_chromosome_history
    last_call,               \* the last sequential call: its batch and how it ended
    pc,                      \* position of each orchestrator thread
    frame,                   \* locals of each thread's evolve_generation call
    demo_running,            \* DemoOrchestrator.demo_running
    generation_count,        \* local counter of _genetic_evolution_loop
    probe                    \* argument/result of the last pure call

vars == << config, rng, heap, population, generation, fitness_history,
           best_chromosome_history, last_call, pc, frame, demo_running,
           generation_count, probe >>

-----------------------------------------------------------------------------
(* Bounds of the model *)

\* evolve_generation is not called once self.generation has reached MaxGen.
MaxGen == 2

\* The generator is seeded with one of the values 0 .. MaxSeed - 1.
MaxSeed == 6

\* At most MaxPasses mutation passes are applied to one chromosome.
MaxPasses == 2

\* One gene unit (1.0), in fixed point.
Unit == 100 * (10 ^ (MaxGen + 1))

\* One fitness unit (1.0), in fixed point.
FitUnit == 10 ^ 3

-----------------------------------------------------------------------------
(* Sequence helpers *)

Range(s) == { s[i] : i \in DOMAIN s }

Min2(a, b) == IF a <= b THEN a ELSE b

Max2(a, b) == IF a >= b THEN a ELSE b

RECURSIVE SumSeq(_)
SumSeq(s) == IF s = << >> THEN 0 ELSE Head(s) + SumSeq(Tail(s))

\* s[1..n], or all of s when it is shorter (Python's s[:n]).
Prefix(s, n) == IF n <= 0 THEN << >> ELSE SubSeq(s, 1, Min2(n, Len(s)))

-----------------------------------------------------------------------------
(* The `random` module.  Its generator is a deterministic stream of words  *)
(* fixed by the seed; the state is modelled as the position in the stream  *)
(* and the Mersenne Twister's output function by a small integer mixer.    *)
(* Every library call consumes one word per value it draws.                *)

\* The 15-bit word the generator yields at position s.
RandomWord(s) ==
    LET x == (s * 20077 + 12345) % 32768
        y == ((x * x) \div 64 + x) % 32768
    IN  (y * 20077 + s * 7 + 1) % 32768

RandomStep(s) == s + 1

\* The state after n draws.
Adv(s, n) == s + n

\* The state random.seed(seed) leaves the generator in.
Seeded(seed) == seed * 1000

\* random._randbelow(n): the value drawn in state s; the state becomes
\* RandomStep(s).
RandBelow(s, n) == (RandomWord(s) * n) \div 32768

\* random.randint(a, b)
RandInt(s, a, b) == a + RandBelow(s, b - a + 1)

\* random.random(), in tenths: 0 .. 9 stands for 0.0 .. 0.9.
RandomTenths(s) == RandBelow(s, 10)

\* random.uniform(a, b) = a + (b - a) * random(), a and b in gene units.
Uniform(s, a, b) == a + ((b - a) * RandomTenths(s)) \div 10

\* random.choice(seq)
Choice(s, seq) == seq[1 + RandBelow(s, Len(seq))]

\* random.sample(population, k) for a small population: k times, draw a
\* position of the pool, take its element and move the pool's last unused
\* element into its place.  It consumes k steps.
RECURSIVE SamplePool(_, _, _)
SamplePool(s, pool, k) ==
    IF k = 0 THEN << >>
    ELSE LET n == Len(pool)
             j == 1 + RandBelow(s, n)
             rest == [ i \in 1 .. (n - 1) |-> IF i = j THEN pool[n] ELSE pool[i] ]
         IN  << pool[j] >> \o SamplePool(RandomStep(s), rest, k - 1)

-----------------------------------------------------------------------------
(* Chromosomes *)

HoneypotCatalog == << "ssh", "ftp", "http", "mysql", "redis", "smtp" >>

ProcessCatalog == << "database", "web_server", "ssh_daemon", "backup_service",
                     "cache_server", "api_gateway", "file_server", "mail_server" >>

FileCatalog == << "config", "database", "backup", "log", "key", "credential" >>

\* A Python number that is an int or a float: the type and the value in
\* gene units.
PyInt(n) == [ type |-> "int", val |-> n * Unit ]

PyFloat(v) == [ type |-> "float", val |-> v ]

\* f"gen{generation}_chr{n}"
ChromosomeId(g, n) == [ gen |-> g, chr |-> n ]

\* _create_random_chromosome with the generator in state s.  The draws are
\* made in the order of the dict literal; CreateDraws is the number of steps
\* it consumes.
HoneypotK(s) == RandInt(Adv(s, 1), 3, 6)

ProcessK(s) == RandInt(Adv(s, 4 + HoneypotK(s)), 4, 8)

FileK(s) == RandInt(Adv(s, 10 + HoneypotK(s) + ProcessK(s)), 3, 6)

CreateDraws(s) == 18 + HoneypotK(s) + ProcessK(s) + FileK(s)

_create_random_chromosome(s, gen) ==
    LET k1 == HoneypotK(s)
        k2 == ProcessK(s)
        k3 == FileK(s)
        a  == Adv(s, 2 + k1)             \* before mirage_config
        b  == Adv(a, 3 + k2)             \* before polymorphism_intensity
        c  == Adv(b, 5)                  \* after decoy_density
        d  == Adv(c, 1 + k3)             \* before fractal_depth
    IN  [ honeypot_count |-> RandInt(s, 3, 10),
          honeypot_types |-> SamplePool(Adv(s, 2), HoneypotCatalog, k1),
          mirage_config |->
            [ count |-> RandInt(a, 5, 15),
              mutation_rate |-> Uniform(Adv(a, 1), Unit \div 10, Unit \div 2),
              process_types |-> SamplePool(Adv(a, 3), ProcessCatalog, k2),
              polymorphism_intensity |-> Uniform(b, (3 * Unit) \div 10, Unit) ],
          credential_config |->
            [ complexity |-> Uniform(Adv(b, 1), (3 * Unit) \div 10, (9 * Unit) \div 10),
              realism_level |-> Uniform(Adv(b, 2), Unit \div 2, Unit),
              diversity |-> Uniform(Adv(b, 3), (4 * Unit) \div 10, (9 * Unit) \div 10) ],
          filesystem_config |->
            [ decoy_density |-> Uniform(Adv(b, 4), Unit \div 10, (8 * Unit) \div 10),
              file_types |-> SamplePool(Adv(c, 1), FileCatalog, k3),
              fractal_depth |-> RandInt(d, 2, 5) ],
          network_config |->
            [ service_diversity |-> PyInt(RandInt(Adv(d, 1), 3, 10)),
              response_delay |-> Uniform(Adv(d, 2), Unit \div 10, 2 * Unit),
              traffic_mimicry |-> Uniform(Adv(d, 3), Unit \div 2, Unit) ],
          math_config |->
            [ chaos_parameter |-> Uniform(Adv(d, 4), (36 * Unit) \div 10, 4 * Unit),
              entropy_target |-> Uniform(Adv(d, 5), (6 * Unit) \div 10, (9 * Unit) \div 10),
              fractal_complexity |-> Uniform(Adv(d, 6), (4 * Unit) \div 10, (9 * Unit) \div 10) ],
          fitness |-> 0,
          generation_created |-> gen,
          parent_ids |-> << >>,
          id |-> ChromosomeId(gen, 0) ]

\* _initialize_population: population_size chromosomes created one after the
\* other, chromosome i given the id gen0_chr{i}.
RECURSIVE InitialChromosomes(_, _, _)
InitialChromosomes(s, i, n) ==
    IF i >= n THEN << >>
    ELSE << [ _create_random_chromosome(s, 0) EXCEPT !.id = ChromosomeId(0, i) ] >>
         \o InitialChromosomes(Adv(s, CreateDraws(s)), i + 1, n)

RECURSIVE InitialRng(_, _, _)
InitialRng(s, i, n) ==
    IF i >= n THEN s ELSE InitialRng(Adv(s, CreateDraws(s)), i + 1, n)

-----------------------------------------------------------------------------
(* utilities.metrics: Shannon entropy of str(value) *)

\* 10^6 * log2(n) for n in 1 .. 64, rounded.
Log2Micro ==
    << 0, 1000000, 1584963, 2000000, 2321928, 2584963, 2807355, 3000000,
       3169925, 3321928, 3459432, 3584963, 3700440, 3807355, 3906891, 4000000,
       4087463, 4169925, 4247928, 4321928, 4392317, 4459432, 4523562, 4584963,
       4643856, 4700440, 4754888, 4807355, 4857981, 4906891, 4954196, 5000000,
       5044394, 5087463, 5129283, 5169925, 5209453, 5247928, 5285402, 5321928,
       5357552, 5392317, 5426265, 5459432, 5491853, 5523562, 5554589, 5584963,
       5614710, 5643856, 5672425, 5700440, 5727920, 5754888, 5781360, 5807355,
       5832890, 5857981, 5882643, 5906891, 5930737, 5954196, 5977280, 6000000 >>

DigitChar == << "0", "1", "2", "3", "4", "5", "6", "7", "8", "9" >>

\* str(n) for an int n >= 0: its decimal digits.
RECURSIVE StrNat(_)
StrNat(n) ==
    IF n < 10 THEN << DigitChar[n + 1] >>
    ELSE StrNat(n \div 10) \o << DigitChar[(n % 10) + 1] >>

\* The decimal digits of the fraction f / Unit, 0 <= f < Unit.
RECURSIVE StrFrac(_)
StrFrac(f) ==
    IF f = 0 THEN << >>
    ELSE << DigitChar[((f * 10) \div Unit) + 1] >> \o StrFrac((f * 10) % Unit)

\* str(x) for a float x >= 0 of v gene units: "6.5", "0.25", "3.0".
StrFloat(v) ==
    StrNat(v \div Unit) \o << "." >>
    \o (IF v % Unit = 0 THEN << "0" >> ELSE StrFrac(v % Unit))

StrPyNum(x) == IF x.type = "int" THEN StrNat(x.val \div Unit) ELSE StrFloat(x.val)

\* str(list) of already converted items: "[a, b, c]".
RECURSIVE JoinItems(_)
JoinItems(items) ==
    IF Len(items) = 1 THEN Head(items)
    ELSE Head(items) \o << ",", " " >> \o JoinItems(Tail(items))

StrList(items) == << "[" >> \o JoinItems(items) \o << "]" >>

CountChar(str, ch) == Cardinality({ i \in DOMAIN str : str[i] = ch })

\* MetricsTracker.calculate_entropy on a string, in thousandths of a bit:
\* -sum p*log2(p) = log2(N) - (sum c*log2(c)) / N over the character counts c.
calculate_entropy(str) ==
    IF Len(str) = 0 THEN 0
    ELSE LET N == Len(str)
             RECURSIVE SumOver(_)
             SumOver(S) ==
                 IF S = {} THEN 0
                 ELSE LET ch == CHOOSE y \in S : TRUE
                          c == CountChar(str, ch)
                      IN  c * Log2Micro[c] + SumOver(S \ {ch})
         IN  (N * Log2Micro[N] - SumOver(Range(str))) \div (N * 1000)

-----------------------------------------------------------------------------
(* Fitness *)

\* GA_CONFIG['fitness_weights'], in thousandths.
fitness_weights ==
    [ engagement_time |-> 300, data_quality |-> 250,
      confusion_score |-> 250, genetic_diversity |-> 200 ]

\* dict.get(key, default) on a dict modelled as a function.
Get(d, key, default) == IF key \in DOMAIN d THEN d[key] ELSE default

\* The empty dict.
EmptyDict == << >>

\* _calculate_chromosome_diversity, in thousandths: min(entropy / 10, 1).
_calculate_chromosome_diversity(chromosome) ==
    LET config_values ==
            << StrNat(chromosome.honeypot_count),
               StrNat(chromosome.mirage_config.count),
               StrFloat(chromosome.mirage_config.mutation_rate),
               StrFloat(chromosome.credential_config.complexity),
               StrFloat(chromosome.filesystem_config.decoy_density),
               StrPyNum(chromosome.network_config.service_diversity) >>
        entropy == calculate_entropy(StrList(config_values))
    IN  Min2(entropy \div 10, 1000)

\* Mutant of fitness_function: the "if not attack_results" guard is missing.
fitness_function_unguarded(chromosome, attack_results) ==
    Min2((Get(attack_results, "total_interaction_time", 0) * 1000) \div 120, 1000)
        * fitness_weights.engagement_time
    + Min2((Get(attack_results, "data_points_collected", 0) * 1000) \div 100, 1000)
        * fitness_weights.data_quality
    + ((Get(attack_results, "failed_exploits", 0) * 500)
           \div Max2(Get(attack_results, "total_attempts", 1), 1)
       + (Get(attack_results, "repeated_attempts", 0) * 300)
           \div Max2(Get(attack_results, "total_attempts", 1), 1)
       + (IF Get(attack_results, "abandoned", FALSE) THEN 200 ELSE 0))
        * fitness_weights.confusion_score
    + _calculate_chromosome_diversity(chromosome) * fitness_weights.genetic_diversity

\* fitness_function.  Each score is in thousandths and each weight is in
\* thousandths, so the weighted sum is in millionths of 1.0; multiplied by
\* 1000 (line 171) it is the fitness in thousandths of a point (1/FitUnit).
fitness_function(chromosome, attack_results) ==
    IF DOMAIN attack_results = {} THEN 0
    ELSE LET engagement_time == Get(attack_results, "total_interaction_time", 0)
             engagement_score == Min2((engagement_time * 1000) \div 120, 1000)
             data_points == Get(attack_results, "data_points_collected", 0)
             data_score == Min2((data_points * 1000) \div 100, 1000)
             failed_exploits == Get(attack_results, "failed_exploits", 0)
             repeated_attempts == Get(attack_results, "repeated_attempts", 0)
             abandoned == Get(attack_results, "abandoned", FALSE)
             total == Max2(Get(attack_results, "total_attempts", 1), 1)
             confusion_score ==
                 (failed_exploits * 500) \div total
                 + (repeated_attempts * 300) \div total
                 + (IF abandoned THEN 200 ELSE 0)
             diversity_score == _calculate_chromosome_diversity(chromosome)
             weights == fitness_weights
         IN  engagement_score * weights.engagement_time
             + data_score * weights.data_quality
             + confusion_score * weights.confusion_score
             + diversity_score * weights.genetic_diversity

-----------------------------------------------------------------------------
(* evolve_generation, step 1: evaluation and ranking *)

\* Lines 208-213: the fitness of every chromosome of the population is
\* computed from its entry of the batch ({} when its id is absent) and
\* written into the chromosome object.
EvaluatedFitness(h, ref, batch) ==
    fitness_function(h[ref], Get(batch, h[ref].id, EmptyDict))

\* fitness_scores: the pairs (chromosome, fitness) in population order.
FitnessScores(h, pop, batch) ==
    [ i \in DOMAIN pop |-> [ chrom |-> pop[i], fit |-> EvaluatedFitness(h, pop[i], batch) ] ]
    \o << >>

\* The heap after the loop: chromosome['fitness'] = fitness for every pair.
EvaluatedHeap(h, scores) ==
    [ r \in DOMAIN h |->
        IF \E i \in DOMAIN scores : scores[i].chrom = r
        THEN [ h[r] EXCEPT !.fitness =
                 scores[CHOOSE i \in DOMAIN scores : scores[i].chrom = r].fit ]
        ELSE h[r] ] \o << >>

\* Mutant of SortedRank: the sort without reverse=True (ascending).
SortedRankAscending(scores, i) ==
    1 + Cardinality({ j \in DOMAIN scores : scores[j].fit < scores[i].fit })
      + Cardinality({ j \in DOMAIN scores : j < i /\ scores[j].fit = scores[i].fit })

\* sorted(fitness_scores, key=lambda x: x[1], reverse=True): a stable sort,
\* so pairs of equal fitness keep their population order.
SortedRank(scores, i) ==
    1 + Cardinality({ j \in DOMAIN scores : scores[j].fit > scores[i].fit })
      + Cardinality({ j \in DOMAIN scores : j < i /\ scores[j].fit = scores[i].fit })

\* Mutant of SortedByFitness: the pairs are left in population order.
SortedByFitnessUnsorted(scores) == scores

SortedByFitness(scores) ==
    [ k \in DOMAIN scores |->
        scores[CHOOSE i \in DOMAIN scores : SortedRank(scores, i) = k] ]

\* np.mean of the fitness values (truncated to the fixed-point grid).
MeanFitness(scores) ==
    SumSeq([ i \in DOMAIN scores |-> scores[i].fit ]) \div Len(scores)

-----------------------------------------------------------------------------
(* _tournament_selection *)

\* random.sample raises ValueError when asked for 3 of fewer than 3.
TournamentRaises(sorted_population, tournament_size) ==
    tournament_size >= 1 /\ Len(sorted_population) < 3

\* Mutant of TournamentWinner: the first sampled pair wins.
TournamentFirstSampled(tournament) == tournament[1].chrom

\* max(tournament, key=lambda x: x[1]): the first of the sampled pairs
\* that has the greatest fitness.
TournamentWinner(tournament) ==
    LET best == CHOOSE i \in DOMAIN tournament :
                    /\ \A j \in DOMAIN tournament : tournament[j].fit <= tournament[i].fit
                    /\ \A j \in DOMAIN tournament :
                           j < i => tournament[j].fit < tournament[i].fit
    IN  tournament[best].chrom

\* tournament_size winners, each of a fresh sample of k = 3; 3 steps of the
\* generator per winner.
RECURSIVE _tournament_selection(_, _, _)
_tournament_selection(sorted_population, tournament_size, s) ==
    IF tournament_size <= 0 THEN << >>
    ELSE << TournamentWinner(SamplePool(s, sorted_population, 3)) >>
         \o _tournament_selection(sorted_population, tournament_size - 1, Adv(s, 3))

-----------------------------------------------------------------------------
(* _crossover *)

\* Mutant of Blend: the second weight is alpha instead of 1 - alpha.
BlendNoComplement(alpha, x, y) == (alpha * x + alpha * y) \div 10

\* alpha * x + (1 - alpha) * y, alpha in tenths.
Blend(alpha, x, y) == (alpha * x + (10 - alpha) * y) \div 10

\* The two children of parent1 and parent2 (chromosome values), bred with
\* the generator in state s while self.generation is gen.  12 steps: four
\* swap decisions, six blend weights, two id numbers.
CrossoverDraws == 12

\* Mutant of ParentIds: the children keep the parent_ids of the deep copy.
ParentIdsOfCopy(parent1, parent2) == parent1.parent_ids

\* child['parent_ids'] = [parent1['id'], parent2['id']] (lines 339-340).
ParentIds(parent1, parent2) == << parent1.id, parent2.id >>

_crossover(parent1, parent2, s, gen) ==
    LET swap_honeypot == RandomTenths(s) < 5
        swap_mirage   == RandomTenths(Adv(s, 1)) < 5
        swap_cred     == RandomTenths(Adv(s, 2)) < 5
        swap_fs       == RandomTenths(Adv(s, 3)) < 5
        a1 == RandomTenths(Adv(s, 4))
        a2 == RandomTenths(Adv(s, 5))
        a3 == RandomTenths(Adv(s, 6))
        a4 == RandomTenths(Adv(s, 7))
        a5 == RandomTenths(Adv(s, 8))
        a6 == RandomTenths(Adv(s, 9))
        n1 == parent1.network_config
        n2 == parent2.network_config
        m1 == parent1.math_config
        m2 == parent2.math_config
        Child(own, other, b1, b2, b3, b4, b5, b6, idnum) ==
            [ own EXCEPT
                !.honeypot_count = IF swap_honeypot THEN other.honeypot_count ELSE @,
                !.mirage_config.count = IF swap_mirage THEN other.mirage_config.count ELSE @,
                !.credential_config = IF swap_cred THEN other.credential_config ELSE @,
                !.filesystem_config = IF swap_fs THEN other.filesystem_config ELSE @,
                !.network_config =
                    [ service_diversity |->
                          PyFloat(Blend(b1, n1.service_diversity.val, n2.service_diversity.val)),
                      response_delay |-> Blend(b2, n1.response_delay, n2.response_delay),
                      traffic_mimicry |-> Blend(b3, n1.traffic_mimicry, n2.traffic_mimicry) ],
                !.math_config =
                    [ chaos_parameter |-> Blend(b4, m1.chaos_parameter, m2.chaos_parameter),
                      entropy_target |-> Blend(b5, m1.entropy_target, m2.entropy_target),
                      fractal_complexity |->
                          Blend(b6, m1.fractal_complexity, m2.fractal_complexity) ],
                !.id = ChromosomeId(gen, idnum),
                !.parent_ids = ParentIds(parent1, parent2),
                !.generation_created = gen ]
    IN  << Child(parent1, parent2, a1, a2, a3, a4, a5, a6,
                 RandInt(Adv(s, 10), 1000, 9999)),
           Child(parent2, parent1, 10 - a1, 10 - a2, 10 - a3, 10 - a4, 10 - a5, 10 - a6,
                 RandInt(Adv(s, 11), 1000, 9999)) >>

-----------------------------------------------------------------------------
(* _mutate *)

\* One "if random.random() < 0.3" gate with the generator in state s, and
\* the state after the gate and, when it fired, its one further draw.
MutationFires(s) == RandomTenths(s) < 3

AfterGate(s) == IF MutationFires(s) THEN Adv(s, 2) ELSE Adv(s, 1)

\* max(lo, min(hi, x))
Clamp(lo, hi, x) == Max2(lo, Min2(hi, x))

\* max(3, min(10, x)) on an int-or-float: min and max return one of their
\* arguments, so a value cut at a limit becomes the int limit.
ClampServiceDiversity(x) ==
    LET w == IF x.val < 10 * Unit THEN x ELSE PyInt(10)
    IN  IF w.val > 3 * Unit THEN w ELSE PyInt(3)

\* The generator states at which the nine gates of _mutate are drawn.
MutateGate(s, i) ==
    LET g1 == s
        g2 == AfterGate(g1)
        g3 == AfterGate(g2)
        g4 == AfterGate(g3)
        g5 == AfterGate(g4)
        g6 == AfterGate(g5)
        g7 == AfterGate(g6)
        g8 == AfterGate(g7)
        g9 == AfterGate(g8)
    IN  << g1, g2, g3, g4, g5, g6, g7, g8, g9, AfterGate(g9) >>[i]

\* The generator state after one _mutate pass started in state s.
MutateEnd(s) == MutateGate(s, 10)

\* random.randint(-k, k) and random.uniform(-0.1, 0.1) drawn after gate i.
IntDelta(s, i, k) == RandInt(Adv(MutateGate(s, i), 1), 0 - k, k)

FloatDelta(s, i) == Uniform(Adv(MutateGate(s, i), 1), 0 - (Unit \div 10), Unit \div 10)

\* Mutant of _mutate: a fired honeypot_count gate also drops the last
\* honeypot type.
_mutate_types(chromosome, s) ==
    [ chromosome EXCEPT
        !.honeypot_count =
            IF MutationFires(MutateGate(s, 1))
            THEN Clamp(3, 10, @ + IntDelta(s, 1, 2)) ELSE @,
        !.honeypot_types =
            IF MutationFires(MutateGate(s, 1))
            THEN SubSeq(@, 1, Len(@) - 1) ELSE @ ]

_mutate(chromosome, s) ==
    LET F(i) == MutationFires(MutateGate(s, i))
        sd == chromosome.network_config.service_diversity
    IN  [ chromosome EXCEPT
            !.honeypot_count =
                IF F(1) THEN Clamp(3, 10, @ + IntDelta(s, 1, 2)) ELSE @,
            !.mirage_config.count =
                IF F(2) THEN Clamp(5, 15, @ + IntDelta(s, 2, 3)) ELSE @,
            !.mirage_config.mutation_rate =
                IF F(3) THEN Clamp(Unit \div 10, Unit \div 2, @ + FloatDelta(s, 3)) ELSE @,
            !.credential_config.complexity =
                IF F(4) THEN Clamp(0, Unit, @ + FloatDelta(s, 4)) ELSE @,
            !.credential_config.realism_level =
                IF F(5) THEN Clamp(0, Unit, @ + FloatDelta(s, 5)) ELSE @,
            !.credential_config.diversity =
                IF F(6) THEN Clamp(0, Unit, @ + FloatDelta(s, 6)) ELSE @,
            !.filesystem_config.decoy_density =
                IF F(7) THEN Clamp(Unit \div 10, (8 * Unit) \div 10, @ + FloatDelta(s, 7)) ELSE @,
            !.network_config.service_diversity =
                IF F(8)
                THEN ClampServiceDiversity(
                         [ type |-> sd.type, val |-> sd.val + IntDelta(s, 8, 2) * Unit ])
                ELSE @,
            !.math_config.chaos_parameter =
                IF F(9) THEN Clamp((36 * Unit) \div 10, 4 * Unit, @ + FloatDelta(s, 9)) ELSE @ ]

-----------------------------------------------------------------------------
(* evolve_generation, steps 2 to 6 *)

\* Step 4 (lines 232-244).  n_new is len(new_population), the number of
\* elites.  Each turn draws two parents from the pool and either crosses
\* them or deep-copies them; the two new objects go to the end of the heap.
RECURSIVE BreedLoop(_, _, _, _, _, _, _)
BreedLoop(h, n_new, offspring, breeding_pool, s, cfg, gen) ==
    IF n_new + Len(offspring) >= cfg.population_size \/ Len(breeding_pool) < 2
    THEN [ heap |-> h, offspring |-> offspring, rng |-> s ]
    ELSE LET parent1 == Choice(s, breeding_pool)
             parent2 == Choice(Adv(s, 1), breeding_pool)
             cross == RandomTenths(Adv(s, 2)) < cfg.crossover_rate
             made == IF cross
                     THEN _crossover(h[parent1], h[parent2], Adv(s, 3), gen)
                     ELSE << h[parent1], h[parent2] >>
         IN  BreedLoop(h \o made, n_new,
                       offspring \o << Len(h) + 1, Len(h) + 2 >>,
                       breeding_pool,
                       IF cross THEN Adv(s, 3 + CrossoverDraws) ELSE Adv(s, 3),
                       cfg, gen)

\* Step 5 (lines 247-249): "child = self._mutate(child)" binds the mutated
\* copy to the loop variable only; the list offspring keeps the unmutated
\* objects.  MutationLocals is what the loop variable is bound to for each
\* child, MutationStepRng the generator state after the loop.
RECURSIVE MutationGates(_, _, _)
MutationGates(n, s, cfg) ==
    IF n = 0 THEN << >>
    ELSE << s >> \o
         MutationGates(n - 1,
                       IF RandomTenths(s) < cfg.mutation_rate
                       THEN MutateEnd(Adv(s, 1)) ELSE Adv(s, 1),
                       cfg)

MutationLocals(h, offspring, s, cfg) ==
    LET gates == MutationGates(Len(offspring), s, cfg)
    IN  [ i \in DOMAIN offspring |->
            IF RandomTenths(gates[i]) < cfg.mutation_rate
            THEN _mutate(h[offspring[i]], Adv(gates[i], 1))
            ELSE h[offspring[i]] ]

MutationStepRng(offspring, s, cfg) ==
    LET gates == MutationGates(Len(offspring) + 1, s, cfg)
    IN  gates[Len(offspring) + 1]

\* The offspring list as it stands after step 5.
OffspringAfterMutation(h, offspring, s, cfg) == offspring

\* Mutant of FormNewPopulation: the offspring list is not cut.
FormNewPopulationUncut(new_population, offspring, cfg) == new_population \o offspring

\* Step 6 (line 252): the elites followed by as many offspring as fit.
FormNewPopulation(new_population, offspring, cfg) ==
    new_population \o Prefix(offspring, cfg.population_size - Len(new_population))

\* Mutant of Elites: the elite_size best chromosomes, the worst of them first.
ElitesWorstFirst(sorted_population, cfg) ==
    LET n == Min2(cfg.elite_size, Len(sorted_population))
    IN  [ i \in 1 .. n |-> sorted_population[n + 1 - i].chrom ]

\* Step 2 (line 224): the first elite_size chromosomes of the ranking.
Elites(sorted_population, cfg) ==
    [ i \in 1 .. Min2(cfg.elite_size, Len(sorted_population)) |-> sorted_population[i].chrom ]

\* Steps 2 to 6 on the heap h (fitness already written): the heap with the
\* offspring objects, the new population and the generator state.
Breed(h, sorted_population, s, cfg, gen) ==
    LET elite == Elites(sorted_population, cfg)
        tournament_size == cfg.population_size \div 2
        breeding_pool == _tournament_selection(sorted_population, tournament_size, s)
        bred == BreedLoop(h, Len(elite), << >>, breeding_pool,
                          Adv(s, 3 * tournament_size), cfg, gen)
        offspring == OffspringAfterMutation(bred.heap, bred.offspring, bred.rng, cfg)
    IN  [ heap |-> bred.heap,
          new_population |-> FormNewPopulation(elite, offspring, cfg),
          rng |-> MutationStepRng(bred.offspring, bred.rng, cfg) ]

\* Mutant of EvolutionData: the improvement is taken against the previous
\* record's avg_fitness.
EvolutionDataAgainstAvg(sorted_population, scores, gen, history) ==
    [ generation |-> gen,
      best_fitness |-> sorted_population[1].fit,
      avg_fitness |-> MeanFitness(scores),
      worst_fitness |-> sorted_population[Len(sorted_population)].fit,
      best_chromosome |-> sorted_population[1].chrom,
      improvement |->
          IF history # << >>
          THEN sorted_population[1].fit - history[Len(history)].avg_fitness
          ELSE 0 ]

\* Lines 259-266: the record of the generation just evaluated.  gen is
\* self.generation after its increment, history the list before the append.
EvolutionData(sorted_population, scores, gen, history) ==
    [ generation |-> gen,
      best_fitness |-> sorted_population[1].fit,
      avg_fitness |-> MeanFitness(scores),
      worst_fitness |-> sorted_population[Len(sorted_population)].fit,
      best_chromosome |-> sorted_population[1].chrom,
      improvement |->
          IF history # << >>
          THEN sorted_population[1].fit - history[Len(history)].best_fitness
          ELSE 0 ]

\* Mutant of AppendRecord: the list is replaced by one holding the new item.
AppendRecordReset(history, item) == << item >>

\* list.append (lines 268-269).
AppendRecord(history, item) == Append(history, item)

-----------------------------------------------------------------------------
(* The engine: construction and evolve_generation called sequentially *)

Threads == { "main", "ga" }

\* The locals of an evolve_generation call before it has run.
NoFrame ==
    [ batch |-> << >>, scores |-> << >>, sorted_population |-> << >>,
      new_population |-> << >> ]

NoProbe == [ op |-> "none" ]

\* The engine parameters __init__ reads from GA_CONFIG.  The rates are in
\* tenths (GA_CONFIG has mutation_rate 0.2 and crossover_rate 0.8).
EngineConfigs ==
    { [ population_size |-> p, elite_size |-> e, mutation_rate |-> 2, crossover_rate |-> 8 ] :
        p \in 2 .. 4, e \in 0 .. 4 } \ { c \in
    { [ population_size |-> p, elite_size |-> e, mutation_rate |-> 2, crossover_rate |-> 8 ] :
        p \in 2 .. 4, e \in 0 .. 4 } : c.elite_size > c.population_size }

\* __init__ (lines 33-46) with the generator seeded with seed.
InitEngine(cfg, seed) ==
    /\ config = cfg
    /\ heap = InitialChromosomes(Seeded(seed), 0, cfg.population_size)
    /\ population = [ i \in 1 .. cfg.population_size |-> i ]
    /\ rng = InitialRng(Seeded(seed), 0, cfg.population_size)
    /\ generation = 0
    /\ fitness_history = << >>
    /\ best_chromosome_history = << >>

Init ==
    /\ \E cfg \in EngineConfigs, seed \in 0 .. (MaxSeed - 1) : InitEngine(cfg, seed)
    /\ last_call = [ kind |-> "none", batch |-> EmptyDict, value |-> 0 ]
    /\ pc = [ t \in Threads |-> "idle" ]
    /\ frame = [ t \in Threads |-> NoFrame ]
    /\ demo_running = FALSE
    /\ generation_count = 0
    /\ probe = NoProbe

\* One telemetry record (the one _run_demo_sequence reports, lines 197-204).
SampleStats ==
    [ total_interaction_time |-> 45, data_points_collected |-> 67,
      failed_exploits |-> 12, repeated_attempts |-> 8,
      abandoned |-> FALSE, total_attempts |-> 20 ]

\* The batches a caller passes: SampleStats for the ids of a part of the
\* population, nothing for the other ids.  The parts are those that hold or
\* leave out at most one chromosome.
ReportedParts(pop) ==
    { P \in SUBSET DOMAIN pop : Cardinality(P) <= 1 \/ Cardinality(P) >= Len(pop) - 1 }

Batches(h, pop) ==
    { [ id \in { h[pop[i]].id : i \in P } |-> SampleStats ] : P \in ReportedParts(pop) }

\* evolve_generation raises: IndexError at line 219 on an empty population,
\* ValueError in random.sample (line 285) on fewer than 3 chromosomes.
EvolveRaises(pop, cfg) ==
    \/ pop = << >>
    \/ TournamentRaises(pop, cfg.population_size \div 2)

\* Mutant of EvolveRaise: the generation counter is incremented before the
\* tournament raises.
EvolveRaiseCounted(batch) ==
    /\ EvolveRaises(population, config)
    /\ heap' = EvaluatedHeap(heap, FitnessScores(heap, population, batch))
    /\ last_call' = [ kind |-> "raised", batch |-> batch, value |-> 0 ]
    /\ generation' = generation + 1
    /\ UNCHANGED << rng, population, fitness_history, best_chromosome_history >>

\* A call that raises leaves behind what it did before the raise: the
\* fitness written by step 1.
EvolveRaise(batch) ==
    /\ EvolveRaises(population, config)
    /\ heap' = EvaluatedHeap(heap, FitnessScores(heap, population, batch))
    /\ last_call' = [ kind |-> "raised", batch |-> batch, value |-> 0 ]
    /\ UNCHANGED << rng, population, generation, fitness_history, best_chromosome_history >>

\* A call that completes (lines 205-275).
EvolveReturn(batch) ==
    /\ ~ EvolveRaises(population, config)
    /\ LET scores == FitnessScores(heap, population, batch)
           sorted_population == SortedByFitness(scores)
           bred == Breed(EvaluatedHeap(heap, scores), sorted_population,
                         rng, config, generation)
           evolution_data == EvolutionData(sorted_population, scores, generation + 1,
                                           fitness_history)
       IN  /\ heap' = bred.heap
           /\ rng' = bred.rng
           /\ population' = bred.new_population
           /\ generation' = generation + 1
           /\ fitness_history' = AppendRecord(fitness_history, evolution_data)
           /\ best_chromosome_history' =
                  AppendRecord(best_chromosome_history, sorted_population[1].chrom)
           /\ last_call' = [ kind |-> "returned", batch |-> batch,
                             value |-> sorted_population[1].chrom ]

evolve_generation(batch) ==
    /\ generation < MaxGen
    /\ \/ EvolveRaise(batch)
       \/ EvolveReturn(batch)
    /\ UNCHANGED << config, pc, frame, demo_running, generation_count, probe >>

Next == \E batch \in Batches(heap, population) : evolve_generation(batch)

Spec == Init /\ [][Next]_vars

-----------------------------------------------------------------------------
(* Properties of the engine under sequential calls (specification Spec) *)

Live == { population[i] : i \in DOMAIN population }

\* C1: for an engine with population_size >= 4 and 0 <= elite_size <=
\* population_size, the live population holds exactly population_size
\* chromosomes after construction and after every evolve_generation call.
C1_PopulationSizeKept ==
    (config.population_size >= 4 /\ config.elite_size \in 0 .. config.population_size)
        => Len(population) = config.population_size

\* A completed call that bred an odd number of wanted offspring (the loop
\* makes them in pairs, so the list had to be cut).
C1_Witness ==
    /\ last_call.kind = "returned"
    /\ config.population_size >= 4
    /\ config.elite_size < config.population_size
    /\ (config.population_size - config.elite_size) % 2 = 1
    /\ Len(population) = config.population_size

\* Chromosome j of the evaluated population is ranked before chromosome i:
\* higher fitness, or equal fitness and lower index.  fit is the fitness the
\* call wrote.
RankedAhead(fit, j, i) == fit[j] > fit[i] \/ (fit[j] = fit[i] /\ j < i)

\* C2: in every evolve_generation call the elite_size chromosomes ranked
\* highest by the fitness just evaluated (descending, ties to the lower
\* population index) are in the installed population with the same id and
\* the same fitness.
C2_ElitesCarried ==
    [][ last_call'.kind = "returned" =>
          LET fit == [ i \in DOMAIN population |-> heap'[population[i]].fitness ]
          IN  \A i \in DOMAIN population :
                Cardinality({ j \in DOMAIN population : RankedAhead(fit, j, i) })
                    < config.elite_size
                => \E k \in DOMAIN population' :
                      /\ heap'[population'[k]].id = heap'[population[i]].id
                      /\ heap'[population'[k]].fitness = fit[i] ]_vars

\* Two elites of equal fitness were carried over, next to bred offspring.
C2_Witness ==
    /\ last_call.kind = "returned"
    /\ config.elite_size >= 2
    /\ config.elite_size < config.population_size
    /\ Len(population) = config.population_size
    /\ heap[population[1]].fitness = heap[population[2]].fitness
    /\ heap[population[1]].id # heap[population[2]].id
    /\ last_call.batch # EmptyDict

\* The declared domain of every bounded field (section 3 of the design).
Between(lo, x, hi) == lo <= x /\ x <= hi

InDeclaredDomain(c) ==
    /\ c.honeypot_count \in 3 .. 10
    /\ c.mirage_config.count \in 5 .. 15
    /\ Between(Unit \div 10, c.mirage_config.mutation_rate, Unit \div 2)
    /\ Between((3 * Unit) \div 10, c.mirage_config.polymorphism_intensity, Unit)
    /\ Between((3 * Unit) \div 10, c.credential_config.complexity, (9 * Unit) \div 10)
    /\ Between(Unit \div 2, c.credential_config.realism_level, Unit)
    /\ Between((4 * Unit) \div 10, c.credential_config.diversity, (9 * Unit) \div 10)
    /\ Between(Unit \div 10, c.filesystem_config.decoy_density, (8 * Unit) \div 10)
    /\ c.filesystem_config.fractal_depth \in 2 .. 5
    /\ c.network_config.service_diversity.val % Unit = 0
    /\ Between(3 * Unit, c.network_config.service_diversity.val, 10 * Unit)
    /\ Between(Unit \div 10, c.network_config.response_delay, 2 * Unit)
    /\ Between(Unit \div 2, c.network_config.traffic_mimicry, Unit)
    /\ Between((36 * Unit) \div 10, c.math_config.chaos_parameter, 4 * Unit)
    /\ Between((6 * Unit) \div 10, c.math_config.entropy_target, (9 * Unit) \div 10)
    /\ Between((4 * Unit) \div 10, c.math_config.fractal_complexity, (9 * Unit) \div 10)

\* C4: after construction and after any sequence of evolve_generation
\* calls every chromosome of the live population has every bounded field in
\* its declared domain, the integer-typed fields holding integers.
C4_PopulationInDomain == \A r \in Live : InDeclaredDomain(heap[r])

\* C6: fitness_function returns 0 for every chromosome when stats is empty,
\* and every evolve_generation call assigns fitness 0 to each chromosome
\* whose id is absent from the batch; a call on a population that can be
\* bred from (3 or more chromosomes) returns whatever ids are absent.
C6_AbsentIdsScoreZero ==
    /\ [](\A r \in DOMAIN heap : fitness_function(heap[r], EmptyDict) = 0)
    /\ [][ /\ \A i \in DOMAIN population :
                heap[population[i]].id \notin DOMAIN last_call'.batch
                    => heap'[population[i]].fitness = 0
           /\ Len(population) >= 3 => last_call'.kind = "returned" ]_vars

\* A completed call whose batch named some ids and not that of a carried
\* elite that had scored before: the elite's fitness was set back to 0.
C6_Witness ==
    /\ last_call.kind = "returned"
    /\ last_call.batch # EmptyDict
    /\ Len(fitness_history) >= 2
    /\ fitness_history[1].best_fitness > 0
    /\ \E i \in 1 .. Min2(config.elite_size, Len(population)) :
          /\ heap[population[i]].id \notin DOMAIN last_call.batch
          /\ heap[population[i]].fitness = 0
          /\ population[i] = fitness_history[1].best_chromosome

\* The fields of a history record other than the chromosome reference.
RecordFields(rec) ==
    << rec.generation, rec.best_fitness, rec.avg_fitness, rec.worst_fitness,
       rec.improvement >>

\* C7: the history is append-only: every completed call appends exactly
\* one record at the end, the length never decreases, and the fields of
\* earlier records never change.
C7_HistoryAppendOnly ==
    [][ /\ Len(fitness_history') >= Len(fitness_history)
        /\ \A k \in DOMAIN fitness_history :
              RecordFields(fitness_history'[k]) = RecordFields(fitness_history[k])
        /\ last_call'.kind = "returned" =>
              Len(fitness_history') = Len(fitness_history) + 1
        /\ last_call'.kind = "raised" =>
              Len(fitness_history') = Len(fitness_history) ]_vars

\* Two records, the second appended behind the first.
C7_Witness ==
    /\ Len(fitness_history) >= 2
    /\ fitness_history[1].generation = 1
    /\ fitness_history[2].generation = 2
    /\ fitness_history[2].best_fitness # fitness_history[1].best_fitness

\* C8: the best_chromosome snapshot of a history record never changes after
\* the record is appended, so its fitness always equals the record's
\* best_fitness.
C8_SnapshotFrozen ==
    \A k \in DOMAIN fitness_history :
        heap[fitness_history[k].best_chromosome].fitness = fitness_history[k].best_fitness

\* C9: a call that raises leaves the live population (with every fitness
\* field), the generation counter and the history as they were.
C9_RaiseChangesNothing ==
    [][ last_call'.kind = "raised" =>
          /\ population' = population
          /\ generation' = generation
          /\ fitness_history' = fitness_history
          /\ best_chromosome_history' = best_chromosome_history
          /\ \A r \in Live : heap'[r] = heap[r] ]_vars

-----------------------------------------------------------------------------
(* _mutate and fitness_function called on their own *)

\* The engine the pure calls are made on.
ProbeConfig ==
    [ population_size |-> 2, elite_size |-> 1, mutation_rate |-> 2, crossover_rate |-> 8 ]

InitProbe ==
    /\ \E seed \in 0 .. (MaxSeed - 1) : InitEngine(ProbeConfig, seed)
    /\ last_call = [ kind |-> "none", batch |-> EmptyDict, value |-> 0 ]
    /\ pc = [ t \in Threads |-> "idle" ]
    /\ frame = [ t \in Threads |-> NoFrame ]
    /\ demo_running = FALSE
    /\ generation_count = 0
    /\ probe = [ op |-> "created", chromosome |-> heap[1], passes |-> 0 ]

EngineUnchanged ==
    UNCHANGED << config, rng, heap, population, generation, fitness_history,
                 best_chromosome_history, last_call, pc, frame, demo_running,
                 generation_count >>

\* mutated = self._mutate(chromosome) with the generator in state s; the
\* next pass is applied to the result.
MutatePass(s) ==
    /\ probe.op \in { "created", "_mutate" }
    /\ probe.passes < MaxPasses
    /\ probe' = [ op |-> "_mutate",
                  chromosome |-> _mutate(probe.chromosome, s),
                  passes |-> probe.passes + 1 ]
    /\ EngineUnchanged

NextMutate == \E seed \in 0 .. (MaxSeed - 1) : MutatePass(Seeded(seed))

SpecMutate == InitProbe /\ [][NextMutate]_vars

\* Telemetry records inside the documented preconditions (section 6).
ValidStats ==
    [ total_interaction_time : { 0, 45, 120, 300 },
      data_points_collected : { 0, 67, 100 },
      failed_exploits : { 0, 12, 20 },
      repeated_attempts : { 0, 8, 15 },
      abandoned : BOOLEAN,
      total_attempts : { 1, 10, 20, 30 } ]

\* fitness = self.fitness_function(chromosome, results)
FitnessCall(stats) ==
    /\ probe.op = "created"
    /\ probe' = [ op |-> "fitness_function",
                  chromosome |-> probe.chromosome,
                  stats |-> stats,
                  result |-> fitness_function(probe.chromosome, stats) ]
    /\ EngineUnchanged

\* Telemetry records outside the documented preconditions: negative counts,
\* total_attempts of 0 or less.
OutOfDomainStats ==
    [ total_interaction_time : { -60, 45 },
      data_points_collected : { -50, 67 },
      failed_exploits : { -12, 12 },
      repeated_attempts : { -8, 8 },
      abandoned : BOOLEAN,
      total_attempts : { -5, 0, 20 } ] \ ValidStats

NextFitness ==
    \E stats \in ValidStats \cup OutOfDomainStats \cup { EmptyDict } : FitnessCall(stats)

SpecFitness == InitProbe /\ [][NextFitness]_vars

\* The numeric fields _mutate can change, each in its declared range.
MutableFieldsInRange(c) ==
    /\ Between(3, c.honeypot_count, 10)
    /\ Between(5, c.mirage_config.count, 15)
    /\ Between(Unit \div 10, c.mirage_config.mutation_rate, Unit \div 2)
    /\ Between((3 * Unit) \div 10, c.credential_config.complexity, (9 * Unit) \div 10)
    /\ Between(Unit \div 2, c.credential_config.realism_level, Unit)
    /\ Between((4 * Unit) \div 10, c.credential_config.diversity, (9 * Unit) \div 10)
    /\ Between(Unit \div 10, c.filesystem_config.decoy_density, (8 * Unit) \div 10)
    /\ Between(3 * Unit, c.network_config.service_diversity.val, 10 * Unit)
    /\ Between((36 * Unit) \div 10, c.math_config.chaos_parameter, 4 * Unit)

\* C3: from a chromosome with every field in its declared range, after any
\* sequence of _mutate passes every numeric field is still in its own
\* declared range.
C3_MutationKeepsRanges ==
    probe.op = "_mutate" => MutableFieldsInRange(probe.chromosome)

\* C5: for every chromosome and every valid stats record, fitness_function
\* returns a value in [0, 1000] under the default weights.
C5_FitnessInRange ==
    (probe.op = "fitness_function" /\ probe.stats \in ValidStats)
        => Between(0, probe.result, 1000 * FitUnit)

-----------------------------------------------------------------------------
(* The demonstration: two threads calling evolve_generation on one engine *)

\* _genetic_evolution_loop stops after this many generations.
MaxGaGenerations == 5

\* The engines the demonstration runs (bounded stand-ins for GA_CONFIG).
DemoConfigs ==
    { [ population_size |-> 4, elite_size |-> e, mutation_rate |-> 2, crossover_rate |-> 8 ]
        : e \in { 1, 2 } }

\* The state after ga_thread.start(): both threads ready to run.
InitDemo ==
    /\ \E cfg \in DemoConfigs, seed \in 0 .. (MaxSeed - 1) : InitEngine(cfg, seed)
    /\ last_call = [ kind |-> "none", batch |-> EmptyDict, value |-> 0 ]
    /\ pc = [ t \in Threads |-> IF t = "main" THEN "sequence" ELSE "loop" ]
    /\ frame = [ t \in Threads |-> NoFrame ]
    /\ demo_running = TRUE
    /\ generation_count = 0
    /\ probe = NoProbe

\* Calls entered whose generation increment is still to come.
CallsInFlight ==
    Cardinality({ t \in Threads : pc[t] \in { "evaluate", "breed", "install" } })

\* The bound on the generation counter, applied where a call is entered.
CanCall == generation + CallsInFlight < MaxGen

\* One record of simulated telemetry: six draws.
GaStats(s) ==
    [ total_interaction_time |-> Uniform(s, 20, 60),
      data_points_collected |-> RandInt(Adv(s, 1), 30, 100),
      failed_exploits |-> RandInt(Adv(s, 2), 5, 20),
      repeated_attempts |-> RandInt(Adv(s, 3), 3, 15),
      abandoned |-> RandomTenths(Adv(s, 4)) < 2,
      total_attempts |-> RandInt(Adv(s, 5), 10, 30) ]

\* attack_results of the loop: one record per chromosome in population
\* order, a later chromosome with the same id replacing the earlier entry.
GaBatch(h, pop, s) ==
    [ id \in { h[pop[i]].id : i \in DOMAIN pop } |->
        LET last == CHOOSE i \in DOMAIN pop :
                        /\ h[pop[i]].id = id
                        /\ \A j \in DOMAIN pop : h[pop[j]].id = id => j <= i
        IN  GaStats(Adv(s, 6 * (last - 1))) ]

\* The main thread builds its attack_results and enters evolve_generation.
MainCall ==
    /\ pc["main"] = "sequence"
    /\ CanCall
    /\ population # << >>
    /\ frame' = [ frame EXCEPT !["main"] =
                    [ NoFrame EXCEPT !.batch =
                        [ id \in { heap[population[1]].id } |-> SampleStats ] ] ]
    /\ pc' = [ pc EXCEPT !["main"] = "evaluate" ]
    /\ UNCHANGED << config, rng, heap, population, generation, fitness_history,
                    best_chromosome_history, last_call, demo_running,
                    generation_count, probe >>

\* self.demo_running = False after the sequence.
MainFinish ==
    /\ pc["main"] = "rest"
    /\ demo_running' = FALSE
    /\ pc' = [ pc EXCEPT !["main"] = "done" ]
    /\ UNCHANGED << config, rng, heap, population, generation, fitness_history,
                    best_chromosome_history, last_call, frame, generation_count, probe >>

\* while self.demo_running and generation_count < 5
GaLoopTest ==
    /\ pc["ga"] = "loop"
    /\ pc' = [ pc EXCEPT !["ga"] =
                 IF demo_running /\ generation_count < MaxGaGenerations
                 THEN "collect" ELSE "done" ]
    /\ UNCHANGED << config, rng, heap, population, generation, fitness_history,
                    best_chromosome_history, last_call, frame, demo_running,
                    generation_count, probe >>

\* The loop body up to the call of evolve_generation.
GaCollect ==
    /\ pc["ga"] = "collect"
    /\ CanCall
    /\ frame' = [ frame EXCEPT !["ga"] =
                    [ NoFrame EXCEPT !.batch = GaBatch(heap, population, rng) ] ]
    /\ rng' = Adv(rng, 6 * Len(population))
    /\ pc' = [ pc EXCEPT !["ga"] = "evaluate" ]
    /\ UNCHANGED << config, heap, population, generation, fitness_history,
                    best_chromosome_history, last_call, demo_running,
                    generation_count, probe >>

\* Step 1 and the ranking (lines 205-221) in thread t.
Evaluate(t) ==
    /\ pc[t] = "evaluate"
    /\ ~ EvolveRaises(population, config)
    /\ LET scores == FitnessScores(heap, population, frame[t].batch)
       IN  /\ heap' = EvaluatedHeap(heap, scores)
           /\ frame' = [ frame EXCEPT ![t].scores = scores,
                                      ![t].sorted_population = SortedByFitness(scores) ]
    /\ pc' = [ pc EXCEPT ![t] = "breed" ]
    /\ UNCHANGED << config, rng, population, generation, fitness_history,
                    best_chromosome_history, last_call, demo_running,
                    generation_count, probe >>

\* Steps 2 to 6 up to the local new_population (lines 223-252) in thread t.
BreedStep(t) ==
    /\ pc[t] = "breed"
    /\ LET bred == Breed(heap, frame[t].sorted_population, rng, config, generation)
       IN  /\ heap' = bred.heap
           /\ rng' = bred.rng
           /\ frame' = [ frame EXCEPT ![t].new_population = bred.new_population ]
    /\ pc' = [ pc EXCEPT ![t] = "install" ]
    /\ UNCHANGED << config, population, generation, fitness_history,
                    best_chromosome_history, last_call, demo_running,
                    generation_count, probe >>

\* self.population = new_population; self.generation += 1 in thread t.
Install(t) ==
    /\ pc[t] = "install"
    /\ population' = frame[t].new_population
    /\ generation' = generation + 1
    /\ pc' = [ pc EXCEPT ![t] = "record" ]
    /\ UNCHANGED << config, rng, heap, fitness_history, best_chromosome_history,
                    last_call, frame, demo_running, generation_count, probe >>

\* The history record and the return (lines 259-275) in thread t; the loop
\* thread then counts the generation.
Record(t) ==
    /\ pc[t] = "record"
    /\ LET sorted_population == frame[t].sorted_population
       IN  /\ fitness_history' =
                  AppendRecord(fitness_history,
                               EvolutionData(sorted_population, frame[t].scores,
                                             generation, fitness_history))
           /\ best_chromosome_history' =
                  AppendRecord(best_chromosome_history, sorted_population[1].chrom)
           /\ last_call' = [ kind |-> "returned", batch |-> frame[t].batch,
                             value |-> sorted_population[1].chrom ]
    /\ generation_count' = IF t = "ga" THEN generation_count + 1 ELSE generation_count
    /\ pc' = [ pc EXCEPT ![t] = IF t = "main" THEN "rest" ELSE "loop" ]
    /\ UNCHANGED << config, rng, heap, population, generation, frame,
                    demo_running, probe >>

NextDemo ==
    \/ MainCall
    \/ MainFinish
    \/ GaLoopTest
    \/ GaCollect
    \/ \E t \in Threads : Evaluate(t)
    \/ \E t \in Threads : BreedStep(t)
    \/ \E t \in Threads : Install(t)
    \/ \E t \in Threads : Record(t)

SpecDemo == InitDemo /\ [][NextDemo]_vars

\* Thread t is inside evolve_generation: it has begun and not yet returned.
InsideEvolve(t) == pc[t] \in { "breed", "install", "record" }

\* C10: executions of evolve_generation complete one after another; none
\* starts before the previous one has installed its population, counted its
\* generation and appended its history entries.
C10_CallsOneAfterAnother ==
    ~ (InsideEvolve("main") /\ InsideEvolve("ga"))

-----------------------------------------------------------------------------
(* Small engines, ids and lineage *)

\* C11: for an engine with population_size < 4 every evolve_generation call
\* in any sequence of calls completes without raising; it stops producing
\* offspring early and may install a smaller population.
C11_SmallEngineNeverRaises ==
    config.population_size < 4 => last_call.kind # "raised"

\* C13: after construction and after any sequence of evolve_generation
\* calls no two chromosomes of the live population have the same id.
C13_IdsUnique ==
    \A i, j \in DOMAIN population :
        i # j => heap[population[i]].id # heap[population[j]].id

\* The chromosomes evolve_generation(batch) installs when it runs on the
\* engine state (h, pop, cfg, gen) with the module-level generator in state s.
InstalledChromosomes(h, pop, s, cfg, gen, batch) ==
    LET scores == FitnessScores(h, pop, batch)
        bred == Breed(EvaluatedHeap(h, scores), SortedByFitness(scores), s, cfg, gen)
    IN  [ i \in DOMAIN bred.new_population |-> bred.heap[bred.new_population[i]] ]

\* C12: with a fixed seed, two runs of evolve_generation from identical
\* engine states with identical stats install identical populations (order,
\* ids, every gene); the outcome depends on no random draws but those of the
\* engine's own seeded source.  The two runs compared are the one that
\* starts before and the one that starts after a step that leaves every
\* field of the engine as it is.
C12_SameInputsSamePopulation ==
    [][ ( /\ rng' # rng
          /\ UNCHANGED << config, heap, population, generation, fitness_history,
                          best_chromosome_history >>
          /\ ~ EvolveRaises(population, config) )
        => LET batch == [ id \in { heap[population[1]].id } |-> SampleStats ]
           IN  InstalledChromosomes(heap, population, rng', config, generation, batch)
                 = InstalledChromosomes(heap, population, rng, config, generation, batch)
      ]_vars

\* The ids of the chromosomes of the population pop on the heap h.
IdsOf(h, pop) == { h[pop[i]].id : i \in DOMAIN pop }

\* C14 as stated: every chromosome of the live population has empty
\* parent_ids in generation 0, and otherwise parent_ids that are ids of
\* members of the immediately preceding population.
C14_ParentsInPrecedingPopulation ==
    /\ [](generation = 0 => \A r \in Live : heap[r].parent_ids = << >>)
    /\ [][ last_call'.kind = "returned" =>
             \A i \in DOMAIN population' :
                 \A k \in DOMAIN heap'[population'[i]].parent_ids :
                     heap'[population'[i]].parent_ids[k] \in IdsOf(heap, population) ]_vars

\* C14 amended: parent_ids is empty in generation 0; a chromosome a call
\* carries over as an elite keeps its parent_ids, a copied parent has the
\* id and parent_ids of the member of the evaluated population it copies,
\* and every other chromosome (a crossover child) has as parent_ids the ids
\* of two members of the population the call evaluated.
C14_ParentsOfCrossoverChildren ==
    /\ [](generation = 0 => \A r \in Live : heap[r].parent_ids = << >>)
    /\ [][ last_call'.kind = "returned" =>
             \A i \in DOMAIN population' :
                 LET r == population'[i]
                 IN  IF r \in DOMAIN heap
                     THEN r \in Live /\ heap'[r].parent_ids = heap[r].parent_ids
                     ELSE \/ \E q \in Live :
                               /\ heap'[r].id = heap[q].id
                               /\ heap'[r].parent_ids = heap[q].parent_ids
                          \/ /\ Len(heap'[r].parent_ids) = 2
                             /\ heap'[r].generation_created = generation
                             /\ \A k \in 1 .. 2 :
                                   heap'[r].parent_ids[k] \in IdsOf(heap, population) ]_vars

\* After the second call the population holds an elite that the first call
\* bred by crossover (its parents are two generations back) next to a child
\* the second call bred by crossover.
C14_Witness ==
    /\ last_call.kind = "returned"
    /\ generation = 2
    /\ \E r \in Live :
          heap[r].generation_created = 1 /\ Len(heap[r].parent_ids) = 2
    /\ \E i \in 1 .. Min2(config.elite_size, Len(population)) :
          /\ heap[population[i]].generation_created = 0
          /\ Len(heap[population[i]].parent_ids) = 2

-----------------------------------------------------------------------------
(* Construction *)

\* The values GA_CONFIG can hold when the engine is constructed: valid ones
\* and ones outside the documented limits (rates in tenths).
ConfigValues ==
    [ population_size : 0 .. 4, elite_size : 0 .. 5,
      mutation_rate : { -1, 2, 11 }, crossover_rate : { 8, 12 } ]

\* Before GeneticDeceptionEvolver(): the configuration and the seed are
\* fixed, no engine exists yet.
InitConstruct ==
    /\ \E cfg \in ConfigValues, seed \in 0 .. (MaxSeed - 1) :
          /\ probe = [ op |-> "GA_CONFIG", cfg |-> cfg ]
          /\ rng = Seeded(seed)
    /\ config = EmptyDict
    /\ heap = << >>
    /\ population = << >>
    /\ generation = 0
    /\ fitness_history = << >>
    /\ best_chromosome_history = << >>
    /\ last_call = [ kind |-> "none", batch |-> EmptyDict, value |-> 0 ]
    /\ pc = [ t \in Threads |-> "idle" ]
    /\ frame = [ t \in Threads |-> NoFrame ]
    /\ demo_running = FALSE
    /\ generation_count = 0

\* __init__ (lines 33-48): the parameters are copied from GA_CONFIG as they
\* are and the population is initialized; no statement of it raises.
__init__ ==
    /\ probe.op = "GA_CONFIG"
    /\ config' = probe.cfg
    /\ heap' = InitialChromosomes(rng, 0, probe.cfg.population_size)
    /\ population' = [ i \in 1 .. probe.cfg.population_size |-> i ]
    /\ rng' = InitialRng(rng, 0, probe.cfg.population_size)
    /\ probe' = [ op |-> "__init__", outcome |-> "returned" ]
    /\ UNCHANGED << generation, fitness_history, best_chromosome_history, last_call,
                    pc, frame, demo_running, generation_count >>

NextConstruct == __init__

SpecConstruct == InitConstruct /\ [][NextConstruct]_vars

\* The parameter values the design calls invalid.
InvalidConfig(cfg) ==
    \/ cfg.population_size < 2
    \/ cfg.elite_size > cfg.population_size
    \/ ~ Between(0, cfg.mutation_rate, 10)
    \/ ~ Between(0, cfg.crossover_rate, 10)

\* C15: construction with population_size < 2, elite_size > population_size
\* or a rate outside [0,1] fails, and no engine with an initialized
\* population is produced.
C15_InvalidConfigRejected ==
    (probe.op = "__init__" /\ InvalidConfig(config))
        => (probe.outcome = "raised" /\ population = << >>)

-----------------------------------------------------------------------------
(* Telemetry outside its domain *)

\* The record the clamping policy of the design turns stats into: negative
\* counts become 0, total_attempts is floored to 1.
ClampedStats(stats) ==
    [ stats EXCEPT !.total_interaction_time = Max2(@, 0),
                   !.data_points_collected = Max2(@, 0),
                   !.failed_exploits = Max2(@, 0),
                   !.repeated_attempts = Max2(@, 0),
                   !.total_attempts = Max2(@, 1) ]

\* C16: for every stats record the fitness computed equals the fitness of
\* the record with each negative count replaced by 0 and total_attempts <= 0
\* replaced by 1, so it is never negative.
C16_TelemetryClamped ==
    (probe.op = "fitness_function" /\ probe.stats # EmptyDict)
        => /\ probe.result = fitness_function(probe.chromosome, ClampedStats(probe.stats))
           /\ probe.result >= 0

-----------------------------------------------------------------------------
(* Engines that always cross over *)

\* Engines with crossover_rate = 1.0 and mutation_rate = 0.0.
CrossoverConfigs ==
    { cfg \in [ population_size : 3 .. 4, elite_size : 0 .. 4,
                mutation_rate : { 0 }, crossover_rate : { 10 } ] :
        cfg.elite_size <= cfg.population_size }

InitCrossover ==
    /\ \E cfg \in CrossoverConfigs, seed \in 0 .. (MaxSeed - 1) : InitEngine(cfg, seed)
    /\ last_call = [ kind |-> "none", batch |-> EmptyDict, value |-> 0 ]
    /\ pc = [ t \in Threads |-> "idle" ]
    /\ frame = [ t \in Threads |-> NoFrame ]
    /\ demo_running = FALSE
    /\ generation_count = 0
    /\ probe = NoProbe

SpecCrossover == InitCrossover /\ [][Next]_vars

\* What C17 says of one completed call, from the state before it and the
\* state after it: the elites first in rank order, then exactly
\* population_size - elite_size new chromosomes; with crossover_rate = 1.0
\* each of these is a crossover child of two members of the breeding pool.
InstalledAsDescribed ==
    \A fit \in { [ i \in DOMAIN population |-> heap'[population[i]].fitness ] } :
    \A scores \in { FitnessScores(heap, population, last_call'.batch) } :
    \A sorted_population \in { SortedByFitness(scores) } :
    \A breeding_pool \in
          { _tournament_selection(sorted_population, config.population_size \div 2, rng) } :
    \A pool_ids \in { { heap[breeding_pool[j]].id : j \in DOMAIN breeding_pool } } :
        /\ Len(population') = config.population_size
        /\ \A k \in 1 .. config.elite_size :
              \E i \in DOMAIN population :
                  /\ population'[k] = population[i]
                  /\ Cardinality({ j \in DOMAIN population : RankedAhead(fit, j, i) }) = k - 1
        /\ \A k \in (config.elite_size + 1) .. config.population_size :
              /\ population'[k] \notin DOMAIN heap
              /\ config.crossover_rate = 10 =>
                    LET child == heap'[population'[k]]
                    IN  /\ child.generation_created = generation
                        /\ Len(child.parent_ids) = 2
                        /\ \A p \in 1 .. 2 : child.parent_ids[p] \in pool_ids

\* C17 as stated, for every engine.
C17_ElitesThenOffspring ==
    [][ last_call'.kind = "returned" => InstalledAsDescribed ]_vars

\* C17 amended: the statement for engines whose breeding pool has at least
\* two members (population_size >= 4).
C17_ElitesThenOffspringOfPool ==
    [][ (last_call'.kind = "returned" /\ config.population_size >= 4)
            => InstalledAsDescribed ]_vars

\* The worked example: population_size 4, elite_size 1, always crossing
\* over; the first member is the best of four distinct scores and three
\* crossover children of this call follow.
C17_Witness ==
    /\ last_call.kind = "returned"
    /\ config.population_size = 4
    /\ config.elite_size = 1
    /\ config.crossover_rate = 10
    /\ Len(population) = 4
    /\ heap[population[1]].fitness = fitness_history[Len(fitness_history)].best_fitness
    /\ fitness_history[Len(fitness_history)].best_fitness
           > fitness_history[Len(fitness_history)].worst_fitness
    /\ \A k \in 2 .. 4 :
          /\ heap[population[k]].generation_created = generation - 1
          /\ Len(heap[population[k]].parent_ids) = 2

-----------------------------------------------------------------------------
(* The returned chromosome and the statistics *)

\* C18: evolve_generation returns a chromosome of the population it just
\* evaluated whose fitness is at least that of every chromosome evaluated in
\* the call and equals the best_fitness of the record the call appended.
C18_ReturnsBestEvaluated ==
    [][ last_call'.kind = "returned" =>
          LET best == last_call'.value
          IN  /\ best \in Live
              /\ \A r \in Live : heap'[best].fitness >= heap'[r].fitness
              /\ Len(fitness_history') = Len(fitness_history) + 1
              /\ fitness_history'[Len(fitness_history')].best_fitness = heap'[best].fitness
      ]_vars

\* A completed call on distinct scores of an engine without elites: the
\* chromosome returned is the best evaluated and is not in the installed
\* population.
C18_Witness ==
    /\ last_call.kind = "returned"
    /\ last_call.batch # EmptyDict
    /\ config.elite_size = 0
    /\ last_call.value \notin Live
    /\ heap[last_call.value].fitness = fitness_history[Len(fitness_history)].best_fitness
    /\ fitness_history[Len(fitness_history)].best_fitness
           > fitness_history[Len(fitness_history)].worst_fitness

\* C19: in every appended record improvement is 0 for the first record of
\* the history and for every later record is that record's best_fitness
\* minus the best_fitness of the record immediately before it.
C19_ImprovementIsDifference ==
    \A k \in DOMAIN fitness_history :
        fitness_history[k].improvement =
            IF k = 1 THEN 0
            ELSE fitness_history[k].best_fitness - fitness_history[k - 1].best_fitness

\* A second record whose best fitness fell below that of the first.
C19_Witness ==
    /\ Len(fitness_history) >= 2
    /\ fitness_history[1].best_fitness > 0
    /\ fitness_history[2].best_fitness < fitness_history[1].best_fitness
    /\ fitness_history[2].improvement < 0

-----------------------------------------------------------------------------
(* get_evolution_stats *)

\* Histories have at most MaxHistory records when the statistics are read.
MaxHistory == 3

\* Mutant of get_evolution_stats: the "if first_gen > 0" guard is missing,
\* so the division raises ZeroDivisionError on a first best_fitness of 0.
get_evolution_stats_unguarded(history) ==
    IF history = << >>
    THEN [ raised |-> FALSE, generation |-> 0, best_fitness |-> 0, avg_fitness |-> 0,
           improvement_rate |-> 0, total_generations |-> 0 ]
    ELSE LET latest == history[Len(history)]
             first_gen == history[1].best_fitness
             current_gen == latest.best_fitness
         IN  [ raised |-> Len(history) > 1 /\ first_gen = 0,
               generation |-> latest.generation,
               best_fitness |-> latest.best_fitness,
               avg_fitness |-> latest.avg_fitness,
               improvement_rate |->
                   IF Len(history) > 1 /\ first_gen # 0
                   THEN ((current_gen - first_gen) * 1000) \div first_gen
                   ELSE 0,
               total_generations |-> Len(history) ]

\* get_evolution_stats (lines 400-426) on the history; improvement_rate in
\* tenths of a percent.  raised tells whether the call raised (no statement
\* of it can: the division is guarded by first_gen > 0); the dict returned
\* for an empty history has no total_generations (0 here).
get_evolution_stats(history) ==
    IF history = << >>
    THEN [ raised |-> FALSE, generation |-> 0, best_fitness |-> 0, avg_fitness |-> 0,
           improvement_rate |-> 0, total_generations |-> 0 ]
    ELSE LET latest == history[Len(history)]
             first_gen == history[1].best_fitness
             current_gen == latest.best_fitness
         IN  [ raised |-> FALSE,
               generation |-> latest.generation,
               best_fitness |-> latest.best_fitness,
               avg_fitness |-> latest.avg_fitness,
               improvement_rate |->
                   IF Len(history) > 1
                   THEN IF first_gen > 0
                        THEN ((current_gen - first_gen) * 1000) \div first_gen
                        ELSE 0
                   ELSE 0,
               total_generations |-> Len(history) ]

\* The best_fitness values of the histories read (0, 100, 150 and 1000 points).
BestValues == { 0, 100 * FitUnit, 150 * FitUnit, 1000 * FitUnit }

\* The history evolve_generation builds from the best_fitness values best.
HistoryOf(best) ==
    [ k \in DOMAIN best |->
        [ generation |-> k,
          best_fitness |-> best[k],
          avg_fitness |-> best[k] \div 2,
          worst_fitness |-> 0,
          best_chromosome |-> 1,
          improvement |-> IF k = 1 THEN 0 ELSE best[k] - best[k - 1] ] ]

Histories ==
    { HistoryOf(best) : best \in UNION { [ 1 .. n -> BestValues ] : n \in 0 .. MaxHistory } }

InitStats ==
    /\ \E seed \in 0 .. (MaxSeed - 1) : InitEngine(ProbeConfig, seed)
    /\ last_call = [ kind |-> "none", batch |-> EmptyDict, value |-> 0 ]
    /\ pc = [ t \in Threads |-> "idle" ]
    /\ frame = [ t \in Threads |-> NoFrame ]
    /\ demo_running = FALSE
    /\ generation_count = 0
    /\ \E history \in Histories : probe = [ op |-> "history", fitness_history |-> history ]

\* stats = ga.get_evolution_stats()
StatsCall ==
    /\ probe.op = "history"
    /\ probe' = [ op |-> "get_evolution_stats",
                  fitness_history |-> probe.fitness_history,
                  result |-> get_evolution_stats(probe.fitness_history) ]
    /\ EngineUnchanged

NextStats == StatsCall

SpecStats == InitStats /\ [][NextStats]_vars

-----------------------------------------------------------------------------
(* utilities.metrics: calculate_genetic_diversity_score *)

\* Diversity scores are read over at most MaxPrior prior states.
MaxPrior == 6

\* abs(x)
Abs(x) == IF x < 0 THEN 0 - x ELSE x

\* str.ljust(n): the string (a sequence of characters) padded with spaces.
Ljust(str, n) ==
    [ i \in 1 .. Max2(n, Len(str)) |-> IF i <= Len(str) THEN str[i] ELSE " " ]

\* _hamming_distance in thousandths: 0 for two empty strings, else the
\* share of positions at which the padded strings differ.
_hamming_distance(str1, str2) ==
    LET max_len == Max2(Len(str1), Len(str2))
    IN  IF max_len = 0 THEN 0
        ELSE (Cardinality({ i \in 1 .. max_len :
                              Ljust(str1, max_len)[i] # Ljust(str2, max_len)[i] }) * 1000)
                 \div max_len

\* previous_states[-5:]
LastFive(previous_states) ==
    [ i \in 1 .. Min2(5, Len(previous_states)) |->
        previous_states[Len(previous_states) - Min2(5, Len(previous_states)) + i] ]

\* The division of line 77 raises ZeroDivisionError when both memories are 0.
DiversityRaises(current_state, prev_state) ==
    Max2(current_state.memory, prev_state.memory) = 0

\* The composite diversity of one pair (lines 69-84), in ten-thousandths.
PairDiversity(current_state, prev_state) ==
    LET name_diff == _hamming_distance(current_state.name, prev_state.name)
        memory_diff == (Abs(current_state.memory - prev_state.memory) * 1000)
                           \div Max2(current_state.memory, prev_state.memory)
        cpu_diff == (Abs(current_state.cpu - prev_state.cpu) * 1000) \div 100
    IN  name_diff * 4 + memory_diff * 3 + cpu_diff * 3

\* calculate_genetic_diversity_score: whether the call raised, and the
\* value returned (ten-thousandths) when it did not.
calculate_genetic_diversity_score(current_state, previous_states) ==
    IF previous_states = << >> THEN [ raised |-> FALSE, value |-> 0 ]
    ELSE LET recent == LastFive(previous_states)
         IN  IF \E i \in DOMAIN recent : DiversityRaises(current_state, recent[i])
             THEN [ raised |-> TRUE, value |-> 0 ]
             ELSE [ raised |-> FALSE,
                    value |-> SumSeq([ i \in DOMAIN recent |->
                                         PairDiversity(current_state, recent[i]) ])
                                  \div Len(recent) ]

\* Snapshots of a mirage process: name, memory (KB) and cpu (percent).
ProcessStates ==
    { [ name |-> << "s", "s", "h", "d" >>, memory |-> 2048, cpu |-> 5 ],
      [ name |-> << "s", "q", "l" >>, memory |-> 8192, cpu |-> 100 ],
      [ name |-> << >>, memory |-> 0, cpu |-> 0 ] }

InitDiversity ==
    /\ InitEngine(ProbeConfig, 0)
    /\ last_call = [ kind |-> "none", batch |-> EmptyDict, value |-> 0 ]
    /\ pc = [ t \in Threads |-> "idle" ]
    /\ frame = [ t \in Threads |-> NoFrame ]
    /\ demo_running = FALSE
    /\ generation_count = 0
    /\ \E current_state \in ProcessStates :
       \E previous_states \in UNION { [ 1 .. n -> ProcessStates ] : n \in 0 .. MaxPrior } :
          probe = [ op |-> "states", current_state |-> current_state,
                    previous_states |-> previous_states ]

\* score = metrics.calculate_genetic_diversity_score(current, previous)
DiversityCall ==
    /\ probe.op = "states"
    /\ probe' = [ op |-> "calculate_genetic_diversity_score",
                  current_state |-> probe.current_state,
                  previous_states |-> probe.previous_states,
                  result |-> calculate_genetic_diversity_score(probe.current_state,
                                                               probe.previous_states) ]
    /\ EngineUnchanged

NextDiversity == DiversityCall

SpecDiversity == InitDiversity /\ [][NextDiversity]_vars

\* C21: calculate_genetic_diversity_score returns 0 for no prior states,
\* and for every current state and non-empty sequence of prior states with
\* numeric memory and cpu it returns, without error, a value in [0,1] that
\* depends only on the 5 most recent prior states.
C21_DiversityScoreInUnit ==
    probe.op = "calculate_genetic_diversity_score" =>
        /\ ~ probe.result.raised
        /\ Between(0, probe.result.value, 10000)
        /\ probe.previous_states = << >> => probe.result.value = 0
        /\ probe.result = calculate_genetic_diversity_score(
                              probe.current_state, LastFive(probe.previous_states))

-----------------------------------------------------------------------------
(* Mutation inside evolve_generation *)

\* C22: in evolve_generation each non-elite offspring whose mutation gate
\* fires (probability mutation_rate; always for mutation_rate = 1.0) is
\* installed with the gene values _mutate produced from the bred child;
\* the others, and the elites, are installed unmutated.
C22_OffspringInstalledMutated ==
    [][ (last_call'.kind = "returned" /\ config.population_size >= 4) =>
          \A scores \in { FitnessScores(heap, population, last_call'.batch) } :
          \A sorted_population \in { SortedByFitness(scores) } :
          \A tournament_size \in { config.population_size \div 2 } :
          \A breeding_pool \in
                { _tournament_selection(sorted_population, tournament_size, rng) } :
          \A bred \in { BreedLoop(EvaluatedHeap(heap, scores), config.elite_size, << >>,
                                  breeding_pool, Adv(rng, 3 * tournament_size),
                                  config, generation) } :
          \A mutated \in { MutationLocals(bred.heap, bred.offspring, bred.rng, config) } :
              /\ \A k \in 1 .. config.elite_size :
                    population'[k] = sorted_population[k].chrom
              /\ \A k \in 1 .. (config.population_size - config.elite_size) :
                    heap'[population'[config.elite_size + k]] = mutated[k]
      ]_vars

-----------------------------------------------------------------------------
(* _crossover called on two members of the population *)

\* The engines _crossover is called on.
PairConfigs ==
    { [ population_size |-> 4, elite_size |-> 1, mutation_rate |-> 2, crossover_rate |-> 8 ],
      [ population_size |-> 2, elite_size |-> 0, mutation_rate |-> 2, crossover_rate |-> 8 ] }

InitPair ==
    /\ \E cfg \in PairConfigs, seed \in 0 .. (MaxSeed - 1) : InitEngine(cfg, seed)
    /\ last_call = [ kind |-> "none", batch |-> EmptyDict, value |-> 0 ]
    /\ pc = [ t \in Threads |-> "idle" ]
    /\ frame = [ t \in Threads |-> NoFrame ]
    /\ demo_running = FALSE
    /\ generation_count = 0
    /\ probe = NoProbe

\* An evolve_generation call before _crossover is called.
PairEvolve ==
    /\ probe.op = "none"
    /\ \E batch \in Batches(heap, population) : evolve_generation(batch)

\* child1, child2 = self._crossover(parent1, parent2) on the members i and
\* j of the population; the probe keeps the arguments, the returned pair,
\* the generation counter and the ids of the population at the call.
CrossoverCall(i, j) ==
    /\ probe.op = "none"
    /\ probe' = [ op |-> "_crossover",
                  parent1 |-> heap[population[i]],
                  parent2 |-> heap[population[j]],
                  children |-> _crossover(heap[population[i]], heap[population[j]],
                                          rng, generation),
                  generation |-> generation,
                  ids |-> { heap[population[k]].id : k \in DOMAIN population } ]
    /\ rng' = Adv(rng, CrossoverDraws)
    /\ UNCHANGED << config, heap, population, generation, fitness_history,
                    best_chromosome_history, last_call, pc, frame, demo_running,
                    generation_count >>

NextPair ==
    \/ PairEvolve
    \/ \E i, j \in DOMAIN population : CrossoverCall(i, j)

SpecPair == InitPair /\ [][NextPair]_vars

\* C23: both children returned by _crossover have fitness 0, parent_ids
\* [parent1.id, parent2.id], generation_created equal to the generation
\* counter, and an id that differs from the other child's id, from both
\* parents' ids and from every id already in the population.
C23_ChildrenFresh ==
    probe.op = "_crossover" =>
        \A c \in 1 .. 2 :
            LET child == probe.children[c]
            IN  /\ child.fitness = 0
                /\ child.parent_ids = << probe.parent1.id, probe.parent2.id >>
                /\ child.generation_created = probe.generation
                /\ child.id # probe.children[3 - c].id
                /\ child.id \notin { probe.parent1.id, probe.parent2.id } \cup probe.ids

\* The pair (a1, a2) holds the pair (b1, b2) in this or in the other order.
SamePairOrSwapped(a1, a2, b1, b2) ==
    \/ a1 = b1 /\ a2 = b2
    \/ a1 = b2 /\ a2 = b1

\* The two child values x1, x2 of an interpolated field with parent values
\* y1, y2: the same sum, both between the parent values.
Interpolated(x1, x2, y1, y2) ==
    /\ x1 + x2 = y1 + y2
    /\ Between(Min2(y1, y2), x1, Max2(y1, y2))
    /\ Between(Min2(y1, y2), x2, Max2(y1, y2))

\* C24: crossover conserves genetic material: for honeypot_count, mirage
\* count, credential_config and filesystem_config the children hold the
\* parents' values in one order or the other; for every interpolated
\* network_config and math_config field the children's values have the
\* parents' sum and lie between the parents' values.
C24_CrossoverConserves ==
    probe.op = "_crossover" =>
        LET c1 == probe.children[1]
            c2 == probe.children[2]
            p1 == probe.parent1
            p2 == probe.parent2
        IN  /\ SamePairOrSwapped(c1.honeypot_count, c2.honeypot_count,
                                 p1.honeypot_count, p2.honeypot_count)
            /\ SamePairOrSwapped(c1.mirage_config.count, c2.mirage_config.count,
                                 p1.mirage_config.count, p2.mirage_config.count)
            /\ SamePairOrSwapped(c1.credential_config, c2.credential_config,
                                 p1.credential_config, p2.credential_config)
            /\ SamePairOrSwapped(c1.filesystem_config, c2.filesystem_config,
                                 p1.filesystem_config, p2.filesystem_config)
            /\ Interpolated(c1.network_config.service_diversity.val,
                            c2.network_config.service_diversity.val,
                            p1.network_config.service_diversity.val,
                            p2.network_config.service_diversity.val)
            /\ \A f \in { "response_delay", "traffic_mimicry" } :
                  Interpolated(c1.network_config[f], c2.network_config[f],
                               p1.network_config[f], p2.network_config[f])
            /\ \A f \in { "chaos_parameter", "entropy_target", "fractal_complexity" } :
                  Interpolated(c1.math_config[f], c2.math_config[f],
                               p1.math_config[f], p2.math_config[f])

\* A crossover of two different parents that swapped the credential block,
\* kept the filesystem block, and blended response_delay strictly inside
\* the parents' interval with unequal shares.
C24_Witness ==
    /\ probe.op = "_crossover"
    /\ probe.parent1.credential_config # probe.parent2.credential_config
    /\ probe.children[1].credential_config = probe.parent2.credential_config
    /\ probe.parent1.filesystem_config # probe.parent2.filesystem_config
    /\ probe.children[1].filesystem_config = probe.parent1.filesystem_config
    /\ probe.children[1].network_config.response_delay
           # probe.children[2].network_config.response_delay
    /\ probe.children[1].network_config.response_delay
           \notin { probe.parent1.network_config.response_delay,
                    probe.parent2.network_config.response_delay }

-----------------------------------------------------------------------------
(* _tournament_selection called on a ranked population *)

\* The largest tournament_size of a call.
MaxTournaments == 2

\* The engines whose ranked population the tournaments are run on.
TournamentConfigs ==
    { [ population_size |-> p, elite_size |-> 0, mutation_rate |-> 2, crossover_rate |-> 8 ] :
        p \in 2 .. 5 }

InitTournament ==
    /\ \E cfg \in TournamentConfigs, seed \in 0 .. (MaxSeed - 1) : InitEngine(cfg, seed)
    /\ last_call = [ kind |-> "none", batch |-> EmptyDict, value |-> 0 ]
    /\ pc = [ t \in Threads |-> "idle" ]
    /\ frame = [ t \in Threads |-> NoFrame ]
    /\ demo_running = FALSE
    /\ generation_count = 0
    /\ probe = NoProbe

\* tournament = random.sample(sorted_population, k) of each of the
\* tournament_size rounds of a call that starts in generator state s.
Tournaments(sorted_population, tournament_size, s) ==
    [ t \in 1 .. tournament_size |->
        SamplePool(Adv(s, 3 * (t - 1)), sorted_population, 3) ]

\* self._tournament_selection(sorted_population, tournament_size) on the
\* ranking of the population under batch; the probe keeps the ranked set,
\* the competitors of every round and the returned pool, or that the call
\* raised.
TournamentCall(batch, tournament_size) ==
    /\ probe.op = "none"
    /\ LET sorted_population == SortedByFitness(FitnessScores(heap, population, batch))
       IN  IF TournamentRaises(sorted_population, tournament_size)
           THEN /\ probe' = [ op |-> "_tournament_selection",
                              sorted_population |-> sorted_population,
                              raised |-> TRUE,
                              tournaments |-> << >>,
                              selected |-> << >> ]
                /\ rng' = rng
           ELSE /\ probe' = [ op |-> "_tournament_selection",
                              sorted_population |-> sorted_population,
                              raised |-> FALSE,
                              tournaments |-> Tournaments(sorted_population,
                                                          tournament_size, rng),
                              selected |-> _tournament_selection(sorted_population,
                                                                 tournament_size, rng) ]
                /\ rng' = Adv(rng, 3 * tournament_size)
    /\ UNCHANGED << config, heap, population, generation, fitness_history,
                    best_chromosome_history, last_call, pc, frame, demo_running,
                    generation_count >>

NextTournament ==
    \E batch \in Batches(heap, population), tournament_size \in 1 .. MaxTournaments :
        TournamentCall(batch, tournament_size)

SpecTournament == InitTournament /\ [][NextTournament]_vars

\* C25: every tournament winner is one of its 3 sampled competitors and has
\* the maximum fitness among them, so over a ranked population of size >= 3
\* its fitness is never lower than the minimum fitness of the 3.
C25_WinnerIsBestCompetitor ==
    (probe.op = "_tournament_selection" /\ Len(probe.sorted_population) >= 3) =>
        /\ ~ probe.raised
        /\ \A t \in DOMAIN probe.selected :
              \E i \in 1 .. 3 :
                  /\ probe.tournaments[t][i].chrom = probe.selected[t]
                  /\ \A j \in 1 .. 3 :
                        probe.tournaments[t][j].fit <= probe.tournaments[t][i].fit

\* A round of three competitors with three different fitness values that
\* the last sampled competitor won.
C25_Witness ==
    /\ probe.op = "_tournament_selection"
    /\ ~ probe.raised
    /\ \E t \in DOMAIN probe.selected :
          /\ probe.tournaments[t][1].fit # probe.tournaments[t][2].fit
          /\ probe.tournaments[t][1].fit < probe.tournaments[t][3].fit
          /\ probe.tournaments[t][2].fit < probe.tournaments[t][3].fit
          /\ probe.selected[t] = probe.tournaments[t][3].chrom

\* C26: the 3 competitors are drawn with replacement, so every chromosome of
\* the ranked set can be selected, and a tournament is defined on a ranked
\* set of fewer than 3 chromosomes: the call returns its tournament_size
\* winners.
C26_TournamentDefinedOnSmallSet ==
    probe.op = "_tournament_selection" =>
        /\ ~ probe.raised
        /\ Len(probe.selected) = Len(probe.tournaments)
        /\ Len(probe.selected) >= 1

\* The three competitors of a round are three different chromosomes.
CompetitorsDistinct ==
    probe.op = "_tournament_selection" =>
        \A t \in DOMAIN probe.tournaments :
            \A i, j \in 1 .. 3 :
                i # j => probe.tournaments[t][i].chrom # probe.tournaments[t][j].chrom

\* A chromosome with the strictly lowest fitness of the ranked set is never
\* selected.
StrictlyLowestNeverSelected ==
    probe.op = "_tournament_selection" =>
        \A k \in DOMAIN probe.sorted_population :
            (\A m \in DOMAIN probe.sorted_population :
                 m # k => probe.sorted_population[k].fit < probe.sorted_population[m].fit)
            => \A t \in DOMAIN probe.selected :
                   probe.selected[t] # probe.sorted_population[k].chrom


-----------------------------------------------------------------------------
(* _mutate called at any point of the random stream *)

\* The largest position of the random stream a pass starts at.
MaxStream == 48

\* mutated = self._mutate(chromosome) with the generator at position s of
\* its stream; the probe keeps the position the pass started at.
MutateAt(s) ==
    /\ probe.op \in { "created", "_mutate" }
    /\ probe.passes < MaxPasses
    /\ probe' = [ op |-> "_mutate",
                  chromosome |-> _mutate(probe.chromosome, s),
                  passes |-> probe.passes + 1,
                  input |-> probe.chromosome,
                  s |-> s ]
    /\ EngineUnchanged

\* Two engines, each with its first chromosome ready for a pass.
InitMutateAt ==
    /\ \E seed \in 0 .. 1 : InitEngine(ProbeConfig, seed)
    /\ last_call = [ kind |-> "none", batch |-> EmptyDict, value |-> 0 ]
    /\ pc = [ t \in Threads |-> "idle" ]
    /\ frame = [ t \in Threads |-> NoFrame ]
    /\ demo_running = FALSE
    /\ generation_count = 0
    /\ probe = [ op |-> "created", chromosome |-> heap[1], passes |-> 0 ]

NextMutateAt == \E s \in 0 .. MaxStream : MutateAt(s)

SpecMutateAt == InitMutateAt /\ [][NextMutateAt]_vars

\* The integer genes of _mutate: gate number and the k of randint(-k, k).
IntegerGates == { << 1, 2 >>, << 2, 3 >>, << 8, 2 >> }

\* The magnitudes the design gives the step of the integer gene behind
\* gate i.
DeclaredSteps(i) == IF i = 8 THEN 1 .. 2 ELSE 1 .. 3

\* C27: when an integer mutation fires in _mutate, the value before
\* clamping changes by a non-zero integer step: magnitude 1 to 3 for
\* honeypot_count and mirage_config.count, 1 to 2 for service_diversity.
C27_IntegerStepNonZero ==
    probe.op = "_mutate" =>
        \A g \in IntegerGates :
            MutationFires(MutateGate(probe.s, g[1]))
            => Abs(IntDelta(probe.s, g[1], g[2])) \in DeclaredSteps(g[1])

\* C28: for every chromosome, the output of a mutation pass has
\* honeypot_types, mirage_config.process_types and
\* filesystem_config.file_types identical to those of its input, whatever
\* random choices are made.
C28_CategoricalGenesKept ==
    probe.op = "_mutate" =>
        /\ probe.chromosome.honeypot_types = probe.input.honeypot_types
        /\ probe.chromosome.mirage_config.process_types
               = probe.input.mirage_config.process_types
        /\ probe.chromosome.filesystem_config.file_types
               = probe.input.filesystem_config.file_types

\* A pass that changed honeypot_count, mirage_config.count and
\* decoy_density of its input.
C28_Witness ==
    /\ probe.op = "_mutate"
    /\ probe.chromosome.honeypot_count # probe.input.honeypot_count
    /\ probe.chromosome.mirage_config.count # probe.input.mirage_config.count
    /\ probe.chromosome.filesystem_config.decoy_density
           # probe.input.filesystem_config.decoy_density

-----------------------------------------------------------------------------
(* Chromosomes as object graphs: every dict and list is an object with an  *)
(* address, holding the addresses of the dicts and lists nested in it      *)
(* (refs) and its other items (data).                                      *)

\* The most _crossover and _mutate calls made on one store.
MaxOps == 1

Obj(refs, data) == [ refs |-> refs, data |-> data ]

\* The ten objects of the dict literal of _create_random_chromosome for the
\* chromosome value v, allocated behind the objects of store; the
\* chromosome dict itself is the first of them.
Allocate(store, v) ==
    LET n == Len(store)
    IN  store \o
        << Obj([ honeypot_types |-> n + 2, mirage_config |-> n + 3,
                 credential_config |-> n + 5, filesystem_config |-> n + 6,
                 network_config |-> n + 8, math_config |-> n + 9,
                 parent_ids |-> n + 10 ],
               [ honeypot_count |-> v.honeypot_count, fitness |-> v.fitness,
                 generation_created |-> v.generation_created, id |-> v.id ]),
           Obj(<< >>, v.honeypot_types),
           Obj([ process_types |-> n + 4 ],
               [ count |-> v.mirage_config.count,
                 mutation_rate |-> v.mirage_config.mutation_rate,
                 polymorphism_intensity |-> v.mirage_config.polymorphism_intensity ]),
           Obj(<< >>, v.mirage_config.process_types),
           Obj(<< >>, v.credential_config),
           Obj([ file_types |-> n + 7 ],
               [ decoy_density |-> v.filesystem_config.decoy_density,
                 fractal_depth |-> v.filesystem_config.fractal_depth ]),
           Obj(<< >>, v.filesystem_config.file_types),
           Obj(<< >>, v.network_config),
           Obj(<< >>, v.math_config),
           Obj(<< >>, v.parent_ids) >>

\* The chromosome value read through the dict at address r.
View(store, r) ==
    LET top == store[r]
        mirage == store[top.refs.mirage_config]
        fs == store[top.refs.filesystem_config]
    IN  [ honeypot_count |-> top.data.honeypot_count,
          honeypot_types |-> store[top.refs.honeypot_types].data,
          mirage_config |->
            [ count |-> mirage.data.count,
              mutation_rate |-> mirage.data.mutation_rate,
              process_types |-> store[mirage.refs.process_types].data,
              polymorphism_intensity |-> mirage.data.polymorphism_intensity ],
          credential_config |-> store[top.refs.credential_config].data,
          filesystem_config |->
            [ decoy_density |-> fs.data.decoy_density,
              file_types |-> store[fs.refs.file_types].data,
              fractal_depth |-> fs.data.fractal_depth ],
          network_config |-> store[top.refs.network_config].data,
          math_config |-> store[top.refs.math_config].data,
          fitness |-> top.data.fitness,
          generation_created |-> top.data.generation_created,
          parent_ids |-> store[top.refs.parent_ids].data,
          id |-> top.data.id ]

\* The addresses reachable from the object at address a, a included.
RECURSIVE Reach(_, _)
Reach(store, a) ==
    { a } \cup UNION { Reach(store, store[a].refs[k]) : k \in DOMAIN store[a].refs }

\* Mutant of deepcopy: copy.copy, a new outer object holding the same
\* nested objects.
copy(store, a) == [ store |-> Append(store, store[a]), root |-> Len(store) + 1 ]

\* copy.deepcopy's traversal with its memo: todo holds the objects already
\* copied whose copies still hold the nested objects of the original.  The
\* nested objects not yet in the memo are copied, and the refs of the copy
\* are set to the copies.
RECURSIVE CopyObjects(_, _)
CopyObjects(st, todo) ==
    IF todo = << >> THEN st
    ELSE LET a == Head(todo)
             refs == st.store[a].refs
             fresh == { refs[k] : k \in DOMAIN refs } \ DOMAIN st.memo
             Position(c) == Cardinality({ d \in fresh : d < c }) + 1
             ordered == [ i \in 1 .. Cardinality(fresh) |->
                            CHOOSE c \in fresh : Position(c) = i ]
             memo == st.memo @@ [ c \in fresh |-> Len(st.store) + Position(c) ]
             copies == [ i \in 1 .. Cardinality(fresh) |-> st.store[ordered[i]] ]
             store == [ (st.store \o copies) EXCEPT
                          ![st.memo[a]].refs = [ k \in DOMAIN refs |-> memo[refs[k]] ] ]
         IN  CopyObjects([ store |-> store, memo |-> memo ], Tail(todo) \o ordered)

\* copy.deepcopy(x) for the object x at address a: the store with the
\* copies added, and the address of the copy of x.
deepcopy(store, a) ==
    LET st == CopyObjects([ store |-> Append(store, store[a]),
                            memo |-> (a :> (Len(store) + 1)) ], << a >>)
    IN  [ store |-> st.store, root |-> st.memo[a] ]

\* x[f] = value for the dict at address a.
SetItem(store, a, f, value) == [ store EXCEPT ![a].data[f] = value ]

\* x[k] = y for the dict at address a and the dict or list y at address b.
SetRef(store, a, k, b) == [ store EXCEPT ![a].refs[k] = b ]

\* child1[f] = parent2[f]; child2[f] = parent1[f], one after the other, for
\* the dicts at the addresses c1, c2, p1, p2.
SwapItem(store, c1, c2, p1, p2, f) ==
    LET first == SetItem(store, c1, f, store[p2].data[f])
    IN  SetItem(first, c2, f, first[p1].data[f])

\* child1[cfg][f] = parent2[cfg][f]; child2[cfg][f] = parent1[cfg][f]
SwapNestedItem(store, c1, c2, p1, p2, cfg, f) ==
    SwapItem(store, store[c1].refs[cfg], store[c2].refs[cfg],
             store[p1].refs[cfg], store[p2].refs[cfg], f)

\* x[cfg][f] = value for the dict at address a.
SetNestedItem(store, a, cfg, f, value) == SetItem(store, store[a].refs[cfg], f, value)

\* child1[k] = copy.deepcopy(parent2[k]); child2[k] = copy.deepcopy(parent1[k])
SwapCopy(store, c1, c2, p1, p2, k) ==
    LET d1 == deepcopy(store, store[p2].refs[k])
        first == SetRef(d1.store, c1, k, d1.root)
        d2 == deepcopy(first, first[p1].refs[k])
    IN  SetRef(d2.store, c2, k, d2.root)

\* The value alpha * x + (1 - alpha) * y of two numbers of a dict; a blend
\* of service_diversity is a float.
BlendItems(alpha, x, y, f) ==
    IF f = "service_diversity" THEN PyFloat(Blend(alpha, x.val, y.val))
    ELSE Blend(alpha, x, y)

\* The two assignments of the blend loop for child1[cfg][f] and
\* child2[cfg][f] (lines 328-335), one after the other.
BlendStep(store, c1, c2, p1, p2, cfg, f, alpha) ==
    LET first == SetItem(store, store[c1].refs[cfg], f,
                         BlendItems(alpha, store[store[p1].refs[cfg]].data[f],
                                    store[store[p2].refs[cfg]].data[f], f))
    IN  SetItem(first, first[c2].refs[cfg], f,
                BlendItems(10 - alpha, first[first[p1].refs[cfg]].data[f],
                           first[first[p2].refs[cfg]].data[f], f))

\* child['parent_ids'] = [parent1['id'], parent2['id']]: a new list.
SetParentIds(store, c, p1, p2) ==
    SetRef(Append(store, Obj(<< >>, << store[p1].data.id, store[p2].data.id >>)),
           c, "parent_ids", Len(store) + 1)

\* The statements of _crossover after the two deep copies, in program
\* order, each with the number of draws made before its own.
CrossoverSteps ==
    << [ kind |-> "swap_item", cfg |-> "", f |-> "honeypot_count", draw |-> 0 ],
       [ kind |-> "swap_item", cfg |-> "mirage_config", f |-> "count", draw |-> 1 ],
       [ kind |-> "swap_copy", cfg |-> "credential_config", f |-> "", draw |-> 2 ],
       [ kind |-> "swap_copy", cfg |-> "filesystem_config", f |-> "", draw |-> 3 ],
       [ kind |-> "blend", cfg |-> "network_config", f |-> "service_diversity", draw |-> 4 ],
       [ kind |-> "blend", cfg |-> "network_config", f |-> "response_delay", draw |-> 5 ],
       [ kind |-> "blend", cfg |-> "network_config", f |-> "traffic_mimicry", draw |-> 6 ],
       [ kind |-> "blend", cfg |-> "math_config", f |-> "chaos_parameter", draw |-> 7 ],
       [ kind |-> "blend", cfg |-> "math_config", f |-> "entropy_target", draw |-> 8 ],
       [ kind |-> "blend", cfg |-> "math_config", f |-> "fractal_complexity", draw |-> 9 ],
       [ kind |-> "id", cfg |-> "", f |-> "id", draw |-> 10 ],
       [ kind |-> "parent_ids", cfg |-> "", f |-> "parent_ids", draw |-> 12 ],
       [ kind |-> "generation_created", cfg |-> "", f |-> "generation_created",
         draw |-> 12 ] >>

\* child1['id'] = ...; child2['id'] = ..., two draws.
SetIds(store, c1, c2, s, gen) ==
    SetItem(SetItem(store, c1, "id", ChromosomeId(gen, RandInt(s, 1000, 9999))),
            c2, "id", ChromosomeId(gen, RandInt(Adv(s, 1), 1000, 9999)))

\* One statement of _crossover on the store, its draw made in state s.
CrossoverStep(store, step, c1, c2, p1, p2, s, gen) ==
    CASE step.kind = "swap_item" ->
            IF RandomTenths(s) >= 5 THEN store
            ELSE IF step.cfg = "" THEN SwapItem(store, c1, c2, p1, p2, step.f)
            ELSE SwapNestedItem(store, c1, c2, p1, p2, step.cfg, step.f)
      [] step.kind = "swap_copy" ->
            IF RandomTenths(s) >= 5 THEN store
            ELSE SwapCopy(store, c1, c2, p1, p2, step.cfg)
      [] step.kind = "blend" ->
            BlendStep(store, c1, c2, p1, p2, step.cfg, step.f, RandomTenths(s))
      [] step.kind = "id" -> SetIds(store, c1, c2, s, gen)
      [] step.kind = "parent_ids" ->
            SetParentIds(SetParentIds(store, c1, p1, p2), c2, p1, p2)
      [] step.kind = "generation_created" ->
            SetItem(SetItem(store, c1, step.f, gen), c2, step.f, gen)

RECURSIVE CrossoverRun(_, _, _, _, _, _, _, _)
CrossoverRun(store, steps, c1, c2, p1, p2, s, gen) ==
    IF steps = << >> THEN store
    ELSE CrossoverRun(CrossoverStep(store, Head(steps), c1, c2, p1, p2,
                                    Adv(s, Head(steps).draw), gen),
                      Tail(steps), c1, c2, p1, p2, s, gen)

\* _crossover on the dicts at p1 and p2 with the generator in state s: the
\* store it leaves and the addresses of the two children.
CrossoverObjects(store, p1, p2, s, gen) ==
    LET k1 == deepcopy(store, p1)
        k2 == deepcopy(k1.store, p2)
    IN  [ store |-> CrossoverRun(k2.store, CrossoverSteps, k1.root, k2.root,
                                 p1, p2, s, gen),
          returned |-> << k1.root, k2.root >> ]

\* The genes _mutate assigns, in program order.
MutatedGenes ==
    << << "mirage_config", "count" >>, << "mirage_config", "mutation_rate" >>,
       << "credential_config", "complexity" >>, << "credential_config", "realism_level" >>,
       << "credential_config", "diversity" >>, << "filesystem_config", "decoy_density" >>,
       << "network_config", "service_diversity" >>, << "math_config", "chaos_parameter" >> >>

\* mutated[cfg][f] = v[cfg][f] for the genes of the list.
RECURSIVE MutateRun(_, _, _, _)
MutateRun(store, genes, m, v) ==
    IF genes = << >> THEN store
    ELSE MutateRun(SetNestedItem(store, m, Head(genes)[1], Head(genes)[2],
                                 v[Head(genes)[1]][Head(genes)[2]]),
                   Tail(genes), m, v)

\* _mutate on the dict at address r with the generator in state s: every
\* gene is read from and written to the dict it is in under mutated.
MutateObjects(store, r, s) ==
    LET k == deepcopy(store, r)
    IN  \* mutated['honeypot_count'], then the nested genes
        [ store |-> MutateRun(SetItem(k.store, k.root, "honeypot_count",
                                      _mutate(View(k.store, k.root), s).honeypot_count),
                              MutatedGenes, k.root, _mutate(View(k.store, k.root), s)),
          returned |-> << k.root >> ]

\* An engine of two chromosomes, its population laid out as objects.
InitObjects ==
    /\ \E seed \in 0 .. (MaxSeed - 1) : InitEngine(ProbeConfig, seed)
    /\ last_call = [ kind |-> "none", batch |-> EmptyDict, value |-> 0 ]
    /\ pc = [ t \in Threads |-> "idle" ]
    /\ frame = [ t \in Threads |-> NoFrame ]
    /\ demo_running = FALSE
    /\ generation_count = 0
    /\ probe = [ op |-> "allocated",
                 store |-> Allocate(Allocate(<< >>, heap[population[1]]),
                                    heap[population[2]]),
                 roots |-> << 1, 11 >>,
                 before |-> << >>,
                 inputs |-> << >>,
                 returned |-> << >>,
                 expected |-> << >>,
                 ops |-> 0 ]

\* child1, child2 = self._crossover(parent1, parent2) on the chromosomes i
\* and j of the store; the probe keeps the store before the call, the
\* arguments, the returned chromosomes and the values _crossover gives.
CrossoverOnObjects(i, j, s) ==
    /\ probe.ops < MaxOps
    /\ LET result == CrossoverObjects(probe.store, probe.roots[i], probe.roots[j],
                                      s, generation)
       IN  probe' = [ op |-> "_crossover",
                      store |-> result.store,
                      roots |-> probe.roots \o result.returned,
                      before |-> probe.store,
                      inputs |-> << probe.roots[i], probe.roots[j] >>,
                      returned |-> result.returned,
                      expected |-> _crossover(View(probe.store, probe.roots[i]),
                                              View(probe.store, probe.roots[j]),
                                              s, generation),
                      ops |-> probe.ops + 1 ]
    /\ EngineUnchanged

\* mutated = self._mutate(chromosome) on the chromosome i of the store.
MutateOnObjects(i, s) ==
    /\ probe.ops < MaxOps
    /\ LET result == MutateObjects(probe.store, probe.roots[i], s)
       IN  probe' = [ op |-> "_mutate",
                      store |-> result.store,
                      roots |-> probe.roots \o result.returned,
                      before |-> probe.store,
                      inputs |-> << probe.roots[i] >>,
                      returned |-> result.returned,
                      expected |-> << _mutate(View(probe.store, probe.roots[i]), s) >>,
                      ops |-> probe.ops + 1 ]
    /\ EngineUnchanged

NextObjects ==
    \/ \E i, j \in DOMAIN probe.roots, seed \in 0 .. (MaxSeed - 1) :
          CrossoverOnObjects(i, j, Seeded(seed))
    \/ \E i \in DOMAIN probe.roots, seed \in 0 .. (MaxSeed - 1) :
          MutateOnObjects(i, Seeded(seed))

SpecObjects == InitObjects /\ [][NextObjects]_vars

\* A later change made in place to the nested dict or list k of the
\* chromosome at c: a new item in a list, a new number in a dict.
ChangedInPlace(store, c, k) ==
    LET a == IF k = "process_types" THEN store[store[c].refs.mirage_config].refs[k]
             ELSE IF k = "file_types" THEN store[store[c].refs.filesystem_config].refs[k]
             ELSE store[c].refs[k]
    IN  IF k \in { "honeypot_types", "process_types", "file_types", "parent_ids" }
        THEN [ store EXCEPT ![a].data = Append(@, "changed") ]
        ELSE [ store EXCEPT ![a].data =
                 [ f \in DOMAIN @ |-> IF f = "service_diversity" THEN PyInt(0) ELSE 0 - 1 ] ]

NestedKeys ==
    { "honeypot_types", "mirage_config", "process_types", "credential_config",
      "filesystem_config", "file_types", "network_config", "math_config", "parent_ids" }

\* C29: _crossover and _mutate are copy-on-write: every field of their input
\* chromosomes is left unchanged, and the chromosomes they return share no
\* nested structure with the inputs or with each other, so a later change
\* to a child never changes a parent or its sibling.
C29_CopyOnWrite ==
    probe.op \in { "_crossover", "_mutate" } =>
        /\ \A a \in DOMAIN probe.before : probe.store[a] = probe.before[a]
        /\ \A k \in DOMAIN probe.returned :
              /\ View(probe.store, probe.returned[k]) = probe.expected[k]
              /\ Reach(probe.store, probe.returned[k]) \cap DOMAIN probe.before = {}
              /\ \A m \in DOMAIN probe.returned :
                    m # k => Reach(probe.store, probe.returned[k])
                                 \cap Reach(probe.store, probe.returned[m]) = {}
              /\ \A key \in NestedKeys :
                    \A changed \in { ChangedInPlace(probe.store, probe.returned[k], key) } :
                        /\ View(changed, probe.returned[k])
                               # View(probe.store, probe.returned[k])
                        /\ \A r \in Range(probe.roots) \ { probe.returned[k] } :
                              View(changed, r) = View(probe.store, r)

\* A crossover of two different chromosomes that exchanged the credential
\* block: each child holds a copy of the other parent's block.
C29_Witness ==
    /\ probe.op = "_crossover"
    /\ probe.inputs[1] # probe.inputs[2]
    /\ View(probe.before, probe.inputs[1]).credential_config
           # View(probe.before, probe.inputs[2]).credential_config
    /\ View(probe.store, probe.returned[1]).credential_config
           = View(probe.before, probe.inputs[2]).credential_config
    /\ probe.store[probe.returned[1]].refs.credential_config
           # probe.store[probe.inputs[2]].refs.credential_config
-----------------------------------------------------------------------------
(* The generation counter and the two histories *)

\* C30: after k completed sequential evolve_generation calls on a freshly
\* constructed engine the generation counter is k, the fitness history and
\* the best-chromosome history have k entries each, and the i-th record has
\* generation field i; a completed call adds one to each, and a call that
\* does not complete changes none of the three.
C30_CounterMatchesHistories ==
    /\ [](/\ Len(fitness_history) = generation
          /\ Len(best_chromosome_history) = generation
          /\ \A i \in DOMAIN fitness_history : fitness_history[i].generation = i)
    /\ [][ /\ last_call'.kind = "returned" =>
                /\ generation' = generation + 1
                /\ Len(fitness_history') = Len(fitness_history) + 1
                /\ Len(best_chromosome_history') = Len(best_chromosome_history) + 1
           /\ last_call'.kind = "raised" =>
                /\ generation' = generation
                /\ fitness_history' = fitness_history
                /\ best_chromosome_history' = best_chromosome_history
         ]_vars

\* Two completed calls: the counter is 2 and the records are numbered 1, 2.
C30_Witness ==
    /\ last_call.kind = "returned"
    /\ generation = 2
    /\ Len(fitness_history) = 2
    /\ fitness_history[2].generation = 2

\* A call that raised after a completed one, with the counter still at 1.
C30_WitnessRaised ==
    /\ last_call.kind = "raised"
    /\ generation = 1
    /\ Len(fitness_history) = 1

====
